---------------------------- MODULE Spec2Model ----------------------------
(***************************************************************************)
(* State-machine model of the kp-backend record-keeping service: the       *)
(* relational tables of models.py and the request handlers of routers/.    *)
(*                                                                         *)
(* A table is a function from the primary keys of its rows to the rows.    *)
(* Every handler is one action: it runs in one database session and the    *)
(* action covers everything up to the handler's return.  The handlers that *)
(* write in several steps (create_sale, create_purchase, update_purchase)  *)
(* are, in addition, modelled step by step, one action per stretch of code *)
(* between two points where another session may see or change the store,   *)
(* with the request in flight kept in sessions.  Monetary amounts and      *)
(* quantities (Float columns) are modelled by integers, text by sequences  *)
(* of tokens, dates by <<year, month, day>>.  Requests carry non-null      *)
(* values only.                                                            *)
(***************************************************************************)
EXTENDS Integers, Sequences, FiniteSets, TLC

VARIABLES
    buyers,         \* models.Buyer rows:       id -> [name, opening_balance]
    sales,          \* models.Sale rows:        id -> [date, buyer_id, ...]
    sale_items,     \* models.SaleItem rows:    id -> [sale_id, ...]
    payments,       \* models.Payment rows:     id -> [date, buyer_id, amount, ...]
    purchases,      \* models.Purchase rows:    id -> [date, seller_name, ...]
    expenses,       \* models.Expense rows:     id -> [date, category, amount, description]
    product_types,  \* models.ProductType rows: id -> [name, description]
    last_id,        \* per table, the last primary key the store handed out
    today,          \* what date.today() returns
    fk_enforced,    \* whether the store's engine enforces FOREIGN KEY constraints
    op,             \* the last handler call: its name, target id, request, status, response
    exp_origin,     \* history: expense id -> id of the purchase whose handler inserted it
    key_intact,     \* history: purchases created with transport_cost > 0 whose
                    \* date and seller_name are still those of their creation
    sessions        \* the requests in flight: session -> the handler's position and
                    \* local variables, for the handlers that are run step by step

vars == <<buyers, sales, sale_items, payments, purchases, expenses, product_types,
          last_id, today, fk_enforced, op, exp_origin, key_intact, sessions>>

-----------------------------------------------------------------------------
(* Bounds of the model: how many rows each table's key sequence may hand out. *)
MaxBuyers == 2
MaxSales == 2
MaxPayments == 2
MaxPurchases == 2
MaxExpenses == 2
MaxProductTypes == 7
MaxSessions == 2

-----------------------------------------------------------------------------
(* Generic helpers.                                                         *)

Min(a, b) == IF a <= b THEN a ELSE b

RECURSIVE SumSeq(_)
SumSeq(s) == IF s = <<>> THEN 0 ELSE Head(s) + SumSeq(Tail(s))

\* Python's sum() over the values f[x], x in S.
RECURSIVE SumOver(_, _)
SumOver(f, S) ==
    IF S = {} THEN 0
    ELSE LET x == CHOOSE y \in S : TRUE IN f[x] + SumOver(f, S \ {x})

\* All orders in which a query without a total ORDER BY may return the rows S.
Orders(S) ==
    {s \in [1..Cardinality(S) -> S] : \A i, j \in 1..Cardinality(S) : i # j => s[i] # s[j]}

\* Row removal and insertion.
Without(table, id) == [i \in DOMAIN table \ {id} |-> table[i]]
With(table, id, row) == [i \in DOMAIN table \cup {id} |-> IF i = id THEN row ELSE table[i]]

\* for key, value in update_data.items(): setattr(row, key, value)
Patch(row, update_data) ==
    [f \in DOMAIN row |-> IF f \in DOMAIN update_data THEN update_data[f] ELSE row[f]]

\* datetime.date comparison.
DateLT(a, b) ==
    \/ a[1] < b[1]
    \/ a[1] = b[1] /\ a[2] < b[2]
    \/ a[1] = b[1] /\ a[2] = b[2] /\ a[3] < b[3]
DateLE(a, b) == a = b \/ DateLT(a, b)

NoReq == <<>>
NoResp == <<>>
Call(name, id, req, status, resp) ==
    [name |-> name, id |-> id, req |-> req, status |-> status, resp |-> resp]


-----------------------------------------------------------------------------
(* models.py: relationships and computed properties of Buyer.               *)

\* Buyer.sales / Buyer.payments: the rows whose buyer_id is the buyer's id.
buyer_sales(b) == {s \in DOMAIN sales : sales[s].buyer_id = b}
buyer_payments(b) == {p \in DOMAIN payments : payments[p].buyer_id = b}
\* Sale.sale_items / ProductType.sale_items.
sale_sale_items(s) == {i \in DOMAIN sale_items : sale_items[i].sale_id = s}
product_type_sale_items(t) == {i \in DOMAIN sale_items : sale_items[i].product_type_id = t}

total_sales(b) == SumOver([s \in DOMAIN sales |-> sales[s].total_amount], buyer_sales(b))

total_payments(b) == SumOver([p \in DOMAIN payments |-> payments[p].amount], buyer_payments(b))

outstanding_balance_sign_slip(b) == buyers[b].opening_balance + total_sales(b) + total_payments(b)
outstanding_balance(b) == buyers[b].opening_balance + total_sales(b) - total_payments(b)

\* schemas.BuyerResponse, read from the row's attributes and properties.
BuyerResponse(b) ==
    [id |-> b, name |-> buyers[b].name, opening_balance |-> buyers[b].opening_balance,
     total_sales |-> total_sales(b), total_payments |-> total_payments(b),
     outstanding_balance |-> outstanding_balance(b)]

\* Tables other than the ones an action writes.
BuyerSide == <<buyers, sales, sale_items, payments>>
PurchaseSide == <<purchases, expenses, exp_origin, key_intact>>
Env == <<product_types, today, fk_enforced>>
Store == <<buyers, sales, sale_items, payments, purchases, expenses, product_types,
           last_id, exp_origin, key_intact>>

Bump(table) == [last_id EXCEPT ![table] = @ + 1]

-----------------------------------------------------------------------------
(* routers/buyers.py                                                        *)

\* Collation of the buyer names the model uses (ORDER BY name).
NameOrder == <<"Asha", "Bela">>
NameRank(n) == CHOOSE i \in 1..Len(NameOrder) : NameOrder[i] = n

get_buyers_list ==
    \E ord \in Orders(DOMAIN buyers) :
        /\ \A i, j \in 1..Len(ord) :
              i < j => NameRank(buyers[ord[i]].name) <= NameRank(buyers[ord[j]].name)
        /\ op' = Call("get_buyers_list", 0, NoReq, 200,
                      [i \in 1..Len(ord) |->
                         LET total_sales_ == SumOver([s \in DOMAIN sales |-> sales[s].total_amount],
                                                     buyer_sales(ord[i]))
                             total_payments_ == SumOver([p \in DOMAIN payments |-> payments[p].amount],
                                                        buyer_payments(ord[i]))
                         IN [id |-> ord[i], name |-> buyers[ord[i]].name,
                             outstanding_balance |->
                                 buyers[ord[i]].opening_balance + total_sales_ - total_payments_]])
        /\ UNCHANGED <<Store, Env, sessions>>

get_buyer(buyer_id) ==
    /\ op' = IF buyer_id \notin DOMAIN buyers
             THEN Call("get_buyer", buyer_id, NoReq, 404, NoResp)
             ELSE Call("get_buyer", buyer_id, NoReq, 200, BuyerResponse(buyer_id))
    /\ UNCHANGED <<Store, Env, sessions>>

create_buyer(buyer) ==
    /\ last_id.buyers < MaxBuyers
    /\ LET id == last_id.buyers + 1 IN
        /\ buyers' = With(buyers, id, buyer)
        /\ last_id' = Bump("buyers")
        /\ op' = Call("create_buyer", id, buyer, 201, NoResp)
    /\ UNCHANGED <<sales, sale_items, payments, PurchaseSide, Env, sessions>>

update_buyer(buyer_id, buyer_update) ==
    IF buyer_id \notin DOMAIN buyers
    THEN /\ op' = Call("update_buyer", buyer_id, NoReq, 404, NoResp)
         /\ UNCHANGED <<Store, Env, sessions>>
    ELSE /\ buyers' = [buyers EXCEPT ![buyer_id] = Patch(@, buyer_update)]
         /\ op' = Call("update_buyer", buyer_id, buyer_update, 200, NoResp)
         /\ UNCHANGED <<sales, sale_items, payments, last_id, PurchaseSide, Env, sessions>>

delete_buyer_unchecked(buyer_id) ==
    IF buyer_id \notin DOMAIN buyers
    THEN /\ op' = Call("delete_buyer", buyer_id, NoReq, 404, NoResp)
         /\ UNCHANGED <<Store, Env, sessions>>
    ELSE /\ buyers' = Without(buyers, buyer_id)
         /\ op' = Call("delete_buyer", buyer_id, NoReq, 200, NoResp)
         /\ UNCHANGED <<sales, sale_items, payments, last_id, PurchaseSide, Env, sessions>>
delete_buyer(buyer_id) ==
    IF buyer_id \notin DOMAIN buyers
    THEN /\ op' = Call("delete_buyer", buyer_id, NoReq, 404, NoResp)
         /\ UNCHANGED <<Store, Env, sessions>>
    ELSE IF buyer_sales(buyer_id) # {} \/ buyer_payments(buyer_id) # {}
    THEN /\ op' = Call("delete_buyer", buyer_id, NoReq, 400, NoResp)
         /\ UNCHANGED <<Store, Env, sessions>>
    ELSE /\ buyers' = Without(buyers, buyer_id)
         /\ op' = Call("delete_buyer", buyer_id, NoReq, 200, NoResp)
         /\ UNCHANGED <<sales, sale_items, payments, last_id, PurchaseSide, Env, sessions>>

add_payment(buyer_id, payment) ==
    IF buyer_id \notin DOMAIN buyers
    THEN /\ op' = Call("add_payment", buyer_id, NoReq, 404, NoResp)
         /\ UNCHANGED <<Store, Env, sessions>>
    ELSE /\ last_id.payments < MaxPayments
         /\ LET id == last_id.payments + 1 IN
             /\ payments' = With(payments, id,
                                 [date |-> payment.date, buyer_id |-> buyer_id,
                                  amount |-> payment.amount,
                                  payment_method |-> payment.payment_method,
                                  notes |-> payment.notes])
             /\ last_id' = Bump("payments")
             /\ op' = Call("add_payment", buyer_id, payment, 200, id)
         /\ UNCHANGED <<buyers, sales, sale_items, PurchaseSide, Env, sessions>>

\* Optional[date] = None
NoDate == <<>>

\* The rows S of a table in some order a query with ORDER BY date may return.
OrderedByDate(table, S) ==
    {ord \in Orders(S) :
        \A i, j \in 1..Len(ord) : i < j => DateLE(table[ord[i]].date, table[ord[j]].date)}

\* list.sort(key=lambda x: x["date"]): a stable sort, as an insertion sort that
\* puts each element behind the elements whose date is not later.
InsertByDate_before_equal(sorted, x) ==
    LET k == Cardinality({i \in 1..Len(sorted) : DateLT(sorted[i].date, x.date)})
    IN SubSeq(sorted, 1, k) \o <<x>> \o SubSeq(sorted, k + 1, Len(sorted))
InsertByDate(sorted, x) ==
    LET k == Cardinality({i \in 1..Len(sorted) : DateLE(sorted[i].date, x.date)})
    IN SubSeq(sorted, 1, k) \o <<x>> \o SubSeq(sorted, k + 1, Len(sorted))

RECURSIVE SortByDate(_)
SortByDate(txns) ==
    IF txns = <<>> THEN <<>>
    ELSE InsertByDate(SortByDate(SubSeq(txns, 1, Len(txns) - 1)), txns[Len(txns)])

\* running_balance after the first i transactions.
RECURSIVE RunningBalance_restarts(_, _, _)
RunningBalance_restarts(opening, txns, i) ==
    IF i = 0 THEN opening
    ELSE opening + txns[i].debit - txns[i].credit
RECURSIVE RunningBalance_from_zero(_, _, _)
RunningBalance_from_zero(opening, txns, i) ==
    IF i = 0 THEN 0
    ELSE RunningBalance_from_zero(opening, txns, i - 1) + txns[i].debit - txns[i].credit

RECURSIVE RunningBalance(_, _, _)
RunningBalance(opening, txns, i) ==
    IF i = 0 THEN opening
    ELSE RunningBalance(opening, txns, i - 1) + txns[i].debit - txns[i].credit

InRange_unfiltered(d, start_date, end_date) == TRUE
InRange(d, start_date, end_date) ==
    /\ start_date # NoDate => DateLE(start_date, d)
    /\ end_date # NoDate => DateLE(d, end_date)

\* The response of get_buyer_ledger for the retrieval orders sale_ord, payment_ord.
LedgerResponse(buyer_id, sale_ord, payment_ord) ==
    LET sale_txns == [i \in 1..Len(sale_ord) |->
                        [date |-> sales[sale_ord[i]].date, type |-> "SALE",
                         description |-> <<"Sale #", sale_ord[i], sales[sale_ord[i]].payment_type>>,
                         debit |-> sales[sale_ord[i]].total_amount, credit |-> 0]]
        payment_txns == [i \in 1..Len(payment_ord) |->
                        [date |-> payments[payment_ord[i]].date, type |-> "PAYMENT",
                         description |-> <<"Payment - ", payments[payment_ord[i]].payment_method>>,
                         debit |-> 0, credit |-> payments[payment_ord[i]].amount]]
        transactions == SortByDate(sale_txns \o payment_txns)
        total_sales_ == SumSeq([i \in 1..Len(sale_ord) |-> sales[sale_ord[i]].total_amount])
        total_payments_ == SumSeq([i \in 1..Len(payment_ord) |-> payments[payment_ord[i]].amount])
    IN [buyer |-> BuyerResponse(buyer_id),
        entries |-> [i \in 1..Len(transactions) |->
                        [date |-> transactions[i].date, type |-> transactions[i].type,
                         description |-> transactions[i].description,
                         debit |-> transactions[i].debit, credit |-> transactions[i].credit,
                         balance |-> RunningBalance(buyers[buyer_id].opening_balance,
                                                    transactions, i)]],
        opening_balance |-> buyers[buyer_id].opening_balance,
        closing_balance |-> buyers[buyer_id].opening_balance + total_sales_ - total_payments_]

get_buyer_ledger(buyer_id, start_date, end_date) ==
    /\ IF buyer_id \notin DOMAIN buyers
       THEN op' = Call("get_buyer_ledger", buyer_id,
                       [start_date |-> start_date, end_date |-> end_date], 404, NoResp)
       ELSE \E sale_ord \in OrderedByDate(sales,
                   {s \in DOMAIN sales : /\ sales[s].buyer_id = buyer_id
                                         /\ InRange(sales[s].date, start_date, end_date)}),
               payment_ord \in OrderedByDate(payments,
                   {p \in DOMAIN payments : /\ payments[p].buyer_id = buyer_id
                                            /\ InRange(payments[p].date, start_date, end_date)}) :
                op' = Call("get_buyer_ledger", buyer_id,
                           [start_date |-> start_date, end_date |-> end_date], 200,
                           LedgerResponse(buyer_id, sale_ord, payment_ord))
    /\ UNCHANGED <<Store, Env, sessions>>

-----------------------------------------------------------------------------
(* routers/sales.py                                                         *)

\* total_amount += item.quantity * item.price_per_unit, over the request's items.
ItemsTotal_last_item_only(items) ==
    IF items = <<>> THEN 0
    ELSE items[Len(items)].quantity * items[Len(items)].price_per_unit
RECURSIVE ItemsTotal(_)
ItemsTotal(items) ==
    IF items = <<>> THEN 0
    ELSE ItemsTotal(SubSeq(items, 1, Len(items) - 1))
         + items[Len(items)].quantity * items[Len(items)].price_per_unit

\* The flush or commit raises IntegrityError when the engine enforces the
\* ForeignKey columns of models.py and a referenced row is missing.
SaleForeignKeysOk(buyer_id, items) ==
    fk_enforced =>
        /\ buyer_id \in DOMAIN buyers
        /\ \A i \in 1..Len(items) : items[i].product_type_id \in DOMAIN product_types

create_sale(sale) ==
    LET total_amount == ItemsTotal(sale.sale_items)
        id == last_id.sales + 1
        n == Len(sale.sale_items)
    IN
    /\ last_id.sales < MaxSales
    /\ sale.payment_received_now > 0 => last_id.payments < MaxPayments
    /\ IF ~SaleForeignKeysOk(sale.buyer_id, sale.sale_items)
       THEN /\ op' = Call("create_sale", 0, NoReq, 500, NoResp)
            /\ UNCHANGED <<Store, Env, sessions>>
       ELSE /\ sales' = With(sales, id,
                             [date |-> sale.date, buyer_id |-> sale.buyer_id,
                              payment_type |-> sale.payment_type,
                              payment_received_now |-> sale.payment_received_now,
                              total_amount |-> total_amount])
            /\ sale_items' =
                  [i \in DOMAIN sale_items \cup (last_id.sale_items + 1 .. last_id.sale_items + n) |->
                     IF i \in DOMAIN sale_items THEN sale_items[i]
                     ELSE LET item == sale.sale_items[i - last_id.sale_items] IN
                          [sale_id |-> id, product_type_id |-> item.product_type_id,
                           quantity |-> item.quantity, price_per_unit |-> item.price_per_unit,
                           total_price |-> item.quantity * item.price_per_unit]]
            /\ payments' =
                  IF sale.payment_received_now > 0
                  THEN With(payments, last_id.payments + 1,
                            [date |-> sale.date, buyer_id |-> sale.buyer_id,
                             amount |-> sale.payment_received_now,
                             payment_method |-> "Cash",
                             notes |-> <<"Payment for Sale #", id>>])
                  ELSE payments
            /\ last_id' = [last_id EXCEPT
                              !.sales = id,
                              !.sale_items = @ + n,
                              !.payments = IF sale.payment_received_now > 0 THEN @ + 1 ELSE @]
            /\ op' = Call("create_sale", id, sale, 201, NoResp)
            /\ UNCHANGED <<buyers, PurchaseSide, Env, sessions>>

\* update_sale recomputing total_amount from the update request, which carries no items.
update_sale_recomputes_total(sale_id, sale_update) ==
    IF sale_id \notin DOMAIN sales
    THEN /\ op' = Call("update_sale", sale_id, NoReq, 404, NoResp)
         /\ UNCHANGED <<Store, Env, sessions>>
    ELSE /\ sales' = [sales EXCEPT ![sale_id] = [Patch(@, sale_update) EXCEPT !.total_amount = 0]]
         /\ op' = Call("update_sale", sale_id, sale_update, 200, NoResp)
         /\ UNCHANGED <<buyers, sale_items, payments, last_id, PurchaseSide, Env, sessions>>

update_sale(sale_id, sale_update) ==
    IF sale_id \notin DOMAIN sales
    THEN /\ op' = Call("update_sale", sale_id, NoReq, 404, NoResp)
         /\ UNCHANGED <<Store, Env, sessions>>
    ELSE IF fk_enforced /\ "buyer_id" \in DOMAIN sale_update
                        /\ sale_update.buyer_id \notin DOMAIN buyers
    THEN /\ op' = Call("update_sale", sale_id, NoReq, 500, NoResp)
         /\ UNCHANGED <<Store, Env, sessions>>
    ELSE /\ sales' = [sales EXCEPT ![sale_id] = Patch(@, sale_update)]
         /\ op' = Call("update_sale", sale_id, sale_update, 200, NoResp)
         /\ UNCHANGED <<buyers, sale_items, payments, last_id, PurchaseSide, Env, sessions>>

\* delete_sale without the relationship's cascade: the items stay behind.
delete_sale_no_cascade(sale_id) ==
    IF sale_id \notin DOMAIN sales
    THEN /\ op' = Call("delete_sale", sale_id, NoReq, 404, NoResp)
         /\ UNCHANGED <<Store, Env, sessions>>
    ELSE /\ sales' = Without(sales, sale_id)
         /\ op' = Call("delete_sale", sale_id, NoReq, 200, NoResp)
         /\ UNCHANGED <<buyers, sale_items, payments, last_id, PurchaseSide, Env, sessions>>

\* delete_sale taking the payment recorded for the sale along.
delete_sale_with_its_payment(sale_id) ==
    IF sale_id \notin DOMAIN sales
    THEN /\ op' = Call("delete_sale", sale_id, NoReq, 404, NoResp)
         /\ UNCHANGED <<Store, Env, sessions>>
    ELSE /\ sales' = Without(sales, sale_id)
         /\ sale_items' = [i \in DOMAIN sale_items \ sale_sale_items(sale_id) |-> sale_items[i]]
         /\ payments' = [p \in {q \in DOMAIN payments :
                                   payments[q].notes # <<"Payment for Sale #", sale_id>>}
                          |-> payments[p]]
         /\ op' = Call("delete_sale", sale_id, NoReq, 200, NoResp)
         /\ UNCHANGED <<buyers, last_id, PurchaseSide, Env, sessions>>

delete_sale(sale_id) ==
    IF sale_id \notin DOMAIN sales
    THEN /\ op' = Call("delete_sale", sale_id, NoReq, 404, NoResp)
         /\ UNCHANGED <<Store, Env, sessions>>
    ELSE /\ sales' = Without(sales, sale_id)
         \* relationship(..., cascade="all, delete-orphan")
         /\ sale_items' = [i \in DOMAIN sale_items \ sale_sale_items(sale_id) |-> sale_items[i]]
         /\ op' = Call("delete_sale", sale_id, NoReq, 200, NoResp)
         /\ UNCHANGED <<buyers, payments, last_id, PurchaseSide, Env, sessions>>

-----------------------------------------------------------------------------
(* routers/analytics.py                                                     *)

\* func.sum(column) over the rows S, "or 0" for the NULL of an empty selection.
SumColumn(table, column, S) == SumOver([r \in DOMAIN table |-> table[r][column]], S)

\* get_dashboard_summary adding up only the balances that are owed, as get_top_buyers does.
get_dashboard_summary_owing_only ==
    LET total_purchases == SumColumn(purchases, "total_purchase_cost", DOMAIN purchases)
        total_sales_ == SumColumn(sales, "total_amount", DOMAIN sales)
        total_expenses == SumColumn(expenses, "amount", DOMAIN expenses)
        balance == [b \in DOMAIN buyers |->
                       buyers[b].opening_balance
                       + SumOver([s \in DOMAIN sales |-> sales[s].total_amount], buyer_sales(b))
                       - SumOver([p \in DOMAIN payments |-> payments[p].amount],
                                 buyer_payments(b))]
    IN /\ op' = Call("get_dashboard_summary", 0, NoReq, 200,
                     [today_purchases |-> SumColumn(purchases, "total_purchase_cost",
                                             {p \in DOMAIN purchases : purchases[p].date = today}),
                      today_sales |-> SumColumn(sales, "total_amount",
                                             {s \in DOMAIN sales : sales[s].date = today}),
                      today_expenses |-> SumColumn(expenses, "amount",
                                             {e \in DOMAIN expenses : expenses[e].date = today}),
                      total_purchases |-> total_purchases,
                      total_sales |-> total_sales_, total_expenses |-> total_expenses,
                      total_profit |-> total_sales_ - total_purchases - total_expenses,
                      total_receivable |->
                          SumOver(balance, {b \in DOMAIN buyers : balance[b] > 0})])
       /\ UNCHANGED <<Store, Env, sessions>>

get_dashboard_summary ==
    LET today_purchases == SumColumn(purchases, "total_purchase_cost",
                                     {p \in DOMAIN purchases : purchases[p].date = today})
        today_sales == SumColumn(sales, "total_amount",
                                 {s \in DOMAIN sales : sales[s].date = today})
        today_expenses == SumColumn(expenses, "amount",
                                    {e \in DOMAIN expenses : expenses[e].date = today})
        total_purchases == SumColumn(purchases, "total_purchase_cost", DOMAIN purchases)
        total_sales_ == SumColumn(sales, "total_amount", DOMAIN sales)
        total_expenses == SumColumn(expenses, "amount", DOMAIN expenses)
        total_profit == total_sales_ - total_purchases - total_expenses
        total_receivable ==
            SumOver([b \in DOMAIN buyers |->
                        buyers[b].opening_balance
                        + SumOver([s \in DOMAIN sales |-> sales[s].total_amount], buyer_sales(b))
                        - SumOver([p \in DOMAIN payments |-> payments[p].amount],
                                  buyer_payments(b))],
                    DOMAIN buyers)
    IN /\ op' = Call("get_dashboard_summary", 0, NoReq, 200,
                     [today_purchases |-> today_purchases, today_sales |-> today_sales,
                      today_expenses |-> today_expenses, total_purchases |-> total_purchases,
                      total_sales |-> total_sales_, total_expenses |-> total_expenses,
                      total_profit |-> total_profit, total_receivable |-> total_receivable])
       /\ UNCHANGED <<Store, Env, sessions>>

\* The (year, month) pairs from curr backwards, newest first.
RECURSIVE MonthsBack_same_year(_, _)
MonthsBack_same_year(curr, n) ==
    IF n = 0 THEN <<>>
    ELSE <<curr>> \o MonthsBack_same_year(IF curr[2] = 1 THEN <<curr[1], 12>>
                                          ELSE <<curr[1], curr[2] - 1>>, n - 1)

RECURSIVE MonthsBack(_, _)
MonthsBack(curr, n) ==
    IF n = 0 THEN <<>>
    ELSE <<curr>> \o MonthsBack(IF curr[2] = 1 THEN <<curr[1] - 1, 12>>
                                ELSE <<curr[1], curr[2] - 1>>, n - 1)

Reverse(s) == [i \in 1..Len(s) |-> s[Len(s) + 1 - i]]

\* strftime("%b")
MonthAbbr == <<"Jan", "Feb", "Mar", "Apr", "May", "Jun",
               "Jul", "Aug", "Sep", "Oct", "Nov", "Dec">>

\* The dictionary built from the grouped query: (year, month) -> total, for the
\* months that have a row dated start_date or later; .get(month_key, 0).
MonthTotal(table, column, start_date, year, month) ==
    LET rows == {r \in DOMAIN table : /\ DateLE(start_date, table[r].date)
                                      /\ table[r].date[1] = year
                                      /\ table[r].date[2] = month}
    IN IF rows = {} THEN 0 ELSE SumColumn(table, column, rows)

MonthlyStats(months) ==
    LET month_list == Reverse(MonthsBack(<<today[1], today[2]>>, months))
        start_date == <<month_list[1][1], month_list[1][2], 1>>
    IN [i \in 1..Len(month_list) |->
          LET year == month_list[i][1]
              month == month_list[i][2]
              purchases_ == MonthTotal(purchases, "total_purchase_cost", start_date, year, month)
              sales_ == MonthTotal(sales, "total_amount", start_date, year, month)
              expenses_ == MonthTotal(expenses, "amount", start_date, year, month)
          IN [month |-> <<MonthAbbr[month], year>>,
              purchases |-> purchases_, sales |-> sales_, expenses |-> expenses_,
              profit |-> sales_ - purchases_ - expenses_]]

get_monthly_stats(months) ==
    /\ op' = Call("get_monthly_stats", 0, months, 200, MonthlyStats(months))
    /\ UNCHANGED <<Store, Env, sessions>>

\* buyer_stats.sort(key=..., reverse=True): stable, descending.
InsertByOutstanding_unsorted(sorted, x) == sorted \o <<x>>
InsertByOutstanding(sorted, x) ==
    LET k == Cardinality({i \in 1..Len(sorted) :
                             sorted[i].outstanding_amount >= x.outstanding_amount})
    IN SubSeq(sorted, 1, k) \o <<x>> \o SubSeq(sorted, k + 1, Len(sorted))

RECURSIVE SortByOutstanding(_)
SortByOutstanding(stats) ==
    IF stats = <<>> THEN <<>>
    ELSE InsertByOutstanding(SortByOutstanding(SubSeq(stats, 1, Len(stats) - 1)),
                             stats[Len(stats)])

\* The response of get_top_buyers when db.query(Buyer).all() returns the order ord.
TopBuyers_keeps_settled(ord, limit) ==
    LET all == [i \in 1..Len(ord) |->
                  [buyer_name |-> buyers[ord[i]].name,
                   outstanding_amount |-> outstanding_balance(ord[i])]]
        Owes(stat) == stat.outstanding_amount >= 0
        buyer_stats == SortByOutstanding(SelectSeq(all, Owes))
    IN SubSeq(buyer_stats, 1, Min(limit, Len(buyer_stats)))
TopBuyers(ord, limit) ==
    LET all == [i \in 1..Len(ord) |->
                  LET total_sales_ == SumOver([s \in DOMAIN sales |-> sales[s].total_amount],
                                              buyer_sales(ord[i]))
                      total_payments_ == SumOver([p \in DOMAIN payments |-> payments[p].amount],
                                                 buyer_payments(ord[i]))
                  IN [buyer_name |-> buyers[ord[i]].name,
                      outstanding_amount |->
                          buyers[ord[i]].opening_balance + total_sales_ - total_payments_]]
        Owes(stat) == stat.outstanding_amount > 0
        buyer_stats == SortByOutstanding(SelectSeq(all, Owes))
    IN SubSeq(buyer_stats, 1, Min(limit, Len(buyer_stats)))

get_top_buyers(limit) ==
    /\ \E ord \in Orders(DOMAIN buyers) :
          op' = Call("get_top_buyers", 0, limit, 200, TopBuyers(ord, limit))
    /\ UNCHANGED <<Store, Env, sessions>>

-----------------------------------------------------------------------------
(* routers/purchases.py                                                     *)

\* f"Transport cost for purchase from {seller_name}" + (f" ({transport_service})"
\* if transport_service else ""); <<>> is the None or empty transport_service.
TransportDescription_no_seller(seller_name, transport_service) ==
    <<"Transport cost for ", "purchase">>
    \o (IF transport_service # <<>> THEN <<" (">> \o transport_service \o <<")">> ELSE <<>>)
TransportDescription(seller_name, transport_service) ==
    <<"Transport cost for ", "purchase from ">> \o seller_name
    \o (IF transport_service # <<>> THEN <<" (">> \o transport_service \o <<")">> ELSE <<>>)

\* description LIKE '%pattern%'
Contains(description, pattern) ==
    \E i \in 0..(Len(description) - Len(pattern)) :
        SubSeq(description, i + 1, i + Len(pattern)) = pattern

\* The rows the lookup of the transport expense of a purchase filters in;
\* .first() returns one of them.
TransportExpenseMatches_any_date_or_seller(date, seller_name) ==
    {e \in DOMAIN expenses : expenses[e].category = "Transport"}
TransportExpenseMatches(date, seller_name) ==
    {e \in DOMAIN expenses :
        /\ expenses[e].date = date
        /\ expenses[e].category = "Transport"
        /\ Contains(expenses[e].description, <<"purchase from ">> \o seller_name)}

TotalPurchaseCost_goods_only(quantity, price_per_unit, transport_cost) ==
    quantity * price_per_unit
TotalPurchaseCost(quantity, price_per_unit, transport_cost) ==
    (quantity * price_per_unit) + transport_cost

create_purchase(purchase) ==
    LET total_cost == TotalPurchaseCost(purchase.quantity, purchase.price_per_unit,
                                        purchase.transport_cost)
        id == last_id.purchases + 1
        eid == last_id.expenses + 1
    IN
    /\ last_id.purchases < MaxPurchases
    /\ purchase.transport_cost > 0 => last_id.expenses < MaxExpenses
    /\ purchases' = With(purchases, id,
                         [date |-> purchase.date, seller_name |-> purchase.seller_name,
                          transport_service |-> purchase.transport_service,
                          transport_cost |-> purchase.transport_cost,
                          quantity |-> purchase.quantity,
                          price_per_unit |-> purchase.price_per_unit,
                          total_purchase_cost |-> total_cost])
    /\ IF purchase.transport_cost > 0
       THEN /\ expenses' = With(expenses, eid,
                                [date |-> purchase.date, category |-> "Transport",
                                 amount |-> purchase.transport_cost,
                                 description |-> TransportDescription(purchase.seller_name,
                                                                      purchase.transport_service)])
            /\ last_id' = [last_id EXCEPT !.purchases = id, !.expenses = eid]
            /\ exp_origin' = With(exp_origin, eid, id)
            /\ key_intact' = With(key_intact, id, eid)
       ELSE /\ last_id' = [last_id EXCEPT !.purchases = id]
            /\ UNCHANGED <<expenses, exp_origin, key_intact>>
    /\ op' = Call("create_purchase", id, purchase, 201, NoResp)
    /\ UNCHANGED <<BuyerSide, Env, sessions>>

\* The purchase row after the setattr loop, the stored total left as it was.
UpdatedPurchase_stale_total(row, purchase_update) == Patch(row, purchase_update)

\* The purchase row after the setattr loop of update_purchase.
UpdatedPurchase(row, purchase_update) ==
    LET quantity == IF "quantity" \in DOMAIN purchase_update
                    THEN purchase_update.quantity ELSE row.quantity
        price_per_unit == IF "price_per_unit" \in DOMAIN purchase_update
                          THEN purchase_update.price_per_unit ELSE row.price_per_unit
        transport_cost == IF "transport_cost" \in DOMAIN purchase_update
                          THEN purchase_update.transport_cost ELSE row.transport_cost
        patched == Patch(row, purchase_update)
    IN IF DOMAIN purchase_update \cap {"quantity", "price_per_unit", "transport_cost"} # {}
       THEN [patched EXCEPT !.total_purchase_cost =
                                TotalPurchaseCost(quantity, price_per_unit, transport_cost)]
       ELSE patched

\* transport_cost_changed = "transport_cost" in update_data
transport_cost_changed_always(update_data) == TRUE
transport_cost_changed(update_data) == "transport_cost" \in DOMAIN update_data

\* History only: the purchase keeps its creation-time date and seller_name.
KeyIntactAfter(purchase_id, row) ==
    IF /\ purchase_id \in DOMAIN key_intact
       /\ (row.date # purchases[purchase_id].date
           \/ row.seller_name # purchases[purchase_id].seller_name)
    THEN Without(key_intact, purchase_id)
    ELSE key_intact

update_purchase(purchase_id, purchase_update) ==
    IF purchase_id \notin DOMAIN purchases
    THEN /\ op' = Call("update_purchase", purchase_id, NoReq, 404, NoResp)
         /\ UNCHANGED <<Store, Env, sessions>>
    ELSE
    LET db_purchase == UpdatedPurchase(purchases[purchase_id], purchase_update)
        transport_cost == db_purchase.transport_cost
        matches == TransportExpenseMatches(db_purchase.date, db_purchase.seller_name)
        eid == last_id.expenses + 1
    IN
    /\ purchases' = [purchases EXCEPT ![purchase_id] = db_purchase]
    /\ key_intact' = KeyIntactAfter(purchase_id, db_purchase)
    /\ op' = Call("update_purchase", purchase_id, purchase_update, 200, NoResp)
    /\ IF ~transport_cost_changed(purchase_update)
       THEN UNCHANGED <<expenses, exp_origin, last_id>>
       ELSE IF matches # {}
       THEN \E existing_expense \in matches :
              IF transport_cost > 0
              THEN /\ expenses' = [expenses EXCEPT ![existing_expense] =
                                      [@ EXCEPT !.amount = transport_cost,
                                                !.description = TransportDescription(
                                                    db_purchase.seller_name,
                                                    db_purchase.transport_service)]]
                   /\ UNCHANGED <<exp_origin, last_id>>
              ELSE /\ expenses' = Without(expenses, existing_expense)
                   /\ exp_origin' = [e \in DOMAIN exp_origin \ {existing_expense} |-> exp_origin[e]]
                   /\ UNCHANGED last_id
       ELSE IF transport_cost > 0
       THEN /\ last_id.expenses < MaxExpenses
            /\ expenses' = With(expenses, eid,
                                [date |-> db_purchase.date, category |-> "Transport",
                                 amount |-> transport_cost,
                                 description |-> TransportDescription(
                                     db_purchase.seller_name, db_purchase.transport_service)])
            /\ exp_origin' = With(exp_origin, eid, purchase_id)
            /\ last_id' = [last_id EXCEPT !.expenses = eid]
       ELSE UNCHANGED <<expenses, exp_origin, last_id>>
    /\ UNCHANGED <<BuyerSide, Env, sessions>>

\* delete_purchase looking the transport expense up whatever the transport_cost is.
delete_purchase_always_looks_up(purchase_id) ==
    IF purchase_id \notin DOMAIN purchases
    THEN /\ op' = Call("delete_purchase", purchase_id, NoReq, 404, NoResp)
         /\ UNCHANGED <<Store, Env, sessions>>
    ELSE
    LET db_purchase == purchases[purchase_id]
        matches == TransportExpenseMatches(db_purchase.date, db_purchase.seller_name)
    IN
    /\ IF matches # {}
       THEN \E existing_expense \in matches :
              /\ expenses' = Without(expenses, existing_expense)
              /\ exp_origin' = [e \in DOMAIN exp_origin \ {existing_expense} |-> exp_origin[e]]
       ELSE UNCHANGED <<expenses, exp_origin>>
    /\ purchases' = Without(purchases, purchase_id)
    /\ key_intact' = [p \in DOMAIN key_intact \ {purchase_id} |-> key_intact[p]]
    /\ op' = Call("delete_purchase", purchase_id, NoReq, 200, db_purchase)
    /\ UNCHANGED <<last_id, BuyerSide, Env, sessions>>

delete_purchase(purchase_id) ==
    IF purchase_id \notin DOMAIN purchases
    THEN /\ op' = Call("delete_purchase", purchase_id, NoReq, 404, NoResp)
         /\ UNCHANGED <<Store, Env, sessions>>
    ELSE
    LET db_purchase == purchases[purchase_id]
        matches == IF db_purchase.transport_cost > 0
                   THEN TransportExpenseMatches(db_purchase.date, db_purchase.seller_name)
                   ELSE {}
    IN
    /\ IF matches # {}
       THEN \E existing_expense \in matches :
              /\ expenses' = Without(expenses, existing_expense)
              /\ exp_origin' = [e \in DOMAIN exp_origin \ {existing_expense} |-> exp_origin[e]]
       ELSE UNCHANGED <<expenses, exp_origin>>
    /\ purchases' = Without(purchases, purchase_id)
    /\ key_intact' = [p \in DOMAIN key_intact \ {purchase_id} |-> key_intact[p]]
    \* the row deleted is kept with the call, in place of the message returned
    /\ op' = Call("delete_purchase", purchase_id, NoReq, 200, db_purchase)
    /\ UNCHANGED <<last_id, BuyerSide, Env, sessions>>

-----------------------------------------------------------------------------
(* routers/expenses.py                                                      *)

create_expense(expense) ==
    /\ last_id.expenses < MaxExpenses
    /\ LET id == last_id.expenses + 1 IN
        /\ expenses' = With(expenses, id, expense)
        /\ last_id' = [last_id EXCEPT !.expenses = id]
        /\ op' = Call("create_expense", id, expense, 201, NoResp)
    /\ UNCHANGED <<purchases, exp_origin, key_intact, BuyerSide, Env, sessions>>

update_expense(expense_id, expense_update) ==
    IF expense_id \notin DOMAIN expenses
    THEN /\ op' = Call("update_expense", expense_id, NoReq, 404, NoResp)
         /\ UNCHANGED <<Store, Env, sessions>>
    ELSE /\ expenses' = [expenses EXCEPT ![expense_id] = Patch(@, expense_update)]
         /\ op' = Call("update_expense", expense_id, expense_update, 200, NoResp)
         /\ UNCHANGED <<purchases, exp_origin, key_intact, last_id, BuyerSide, Env, sessions>>

delete_expense(expense_id) ==
    IF expense_id \notin DOMAIN expenses
    THEN /\ op' = Call("delete_expense", expense_id, NoReq, 404, NoResp)
         /\ UNCHANGED <<Store, Env, sessions>>
    ELSE /\ expenses' = Without(expenses, expense_id)
         /\ exp_origin' = [e \in DOMAIN exp_origin \ {expense_id} |-> exp_origin[e]]
         /\ op' = Call("delete_expense", expense_id, NoReq, 200, NoResp)
         /\ UNCHANGED <<purchases, key_intact, last_id, BuyerSide, Env, sessions>>

-----------------------------------------------------------------------------
(* routers/product_types.py                                                 *)

\* Python's None in a text column; no request of the model carries this text.
None == "None"

\* schemas.ProductTypeCreate: name, and description: Optional[str] = None.
ProductTypeDict(product_type) ==
    [name |-> product_type.name,
     description |-> IF "description" \in DOMAIN product_type
                     THEN product_type.description ELSE None]

\* The product types named name: filter(ProductType.name == name), checked off.
ProductTypesNamed_unchecked(name) == {}
\* The product types named name: filter(ProductType.name == name).
ProductTypesNamed(name) == {t \in DOMAIN product_types : product_types[t].name = name}

\* name = Column(String(100), unique=True): the commit raises IntegrityError when
\* another row holds the name.
UniqueNameOk(product_type_id, name) ==
    \A t \in DOMAIN product_types \ {product_type_id} : product_types[t].name # name

create_product_type(product_type) ==
    IF ProductTypesNamed(product_type.name) # {}
    THEN /\ op' = Call("create_product_type", 0, product_type, 400, NoResp)
         /\ UNCHANGED <<Store, Env, sessions>>
    ELSE IF ~UniqueNameOk(0, product_type.name)
    THEN /\ op' = Call("create_product_type", 0, product_type, 500, NoResp)
         /\ UNCHANGED <<Store, Env, sessions>>
    ELSE /\ last_id.product_types < MaxProductTypes
         /\ product_types' = With(product_types, last_id.product_types + 1,
                                  ProductTypeDict(product_type))
         /\ last_id' = Bump("product_types")
         /\ op' = Call("create_product_type", last_id.product_types + 1, product_type,
                       201, NoResp)
         /\ UNCHANGED <<BuyerSide, PurchaseSide, today, fk_enforced, sessions>>

update_product_type(product_type_id, product_type_update) ==
    IF product_type_id \notin DOMAIN product_types
    THEN /\ op' = Call("update_product_type", product_type_id, NoReq, 404, NoResp)
         /\ UNCHANGED <<Store, Env, sessions>>
    ELSE IF /\ product_type_update.name # product_types[product_type_id].name
            /\ ProductTypesNamed(product_type_update.name) # {}
    THEN /\ op' = Call("update_product_type", product_type_id, product_type_update,
                       400, NoResp)
         /\ UNCHANGED <<Store, Env, sessions>>
    ELSE IF ~UniqueNameOk(product_type_id, product_type_update.name)
    THEN /\ op' = Call("update_product_type", product_type_id, product_type_update,
                       500, NoResp)
         /\ UNCHANGED <<Store, Env, sessions>>
    ELSE /\ product_types' =
               [product_types EXCEPT ![product_type_id] = ProductTypeDict(product_type_update)]
         /\ op' = Call("update_product_type", product_type_id, product_type_update,
                       200, NoResp)
         /\ UNCHANGED <<last_id, BuyerSide, PurchaseSide, today, fk_enforced, sessions>>

delete_product_type(product_type_id) ==
    IF product_type_id \notin DOMAIN product_types
    THEN /\ op' = Call("delete_product_type", product_type_id, NoReq, 404, NoResp)
         /\ UNCHANGED <<Store, Env, sessions>>
    ELSE IF product_type_sale_items(product_type_id) # {}
    THEN /\ op' = Call("delete_product_type", product_type_id, NoReq, 400, NoResp)
         /\ UNCHANGED <<Store, Env, sessions>>
    ELSE /\ product_types' = Without(product_types, product_type_id)
         /\ op' = Call("delete_product_type", product_type_id, NoReq, 200, NoResp)
         /\ UNCHANGED <<last_id, BuyerSide, PurchaseSide, today, fk_enforced, sessions>>

-----------------------------------------------------------------------------
(* Handlers step by step.  A session holds one request in flight; what it   *)
(* has written and not committed is invisible to every other session and is *)
(* dropped when the request fails.                                          *)

\* A request in flight ends without reaching its return: an exception or a lost
\* connection closes the session, and what it had not committed is rolled back.
request_fails(session) ==
    /\ session \in DOMAIN sessions
    /\ sessions' = Without(sessions, session)
    /\ op' = Call(sessions[session].name, sessions[session].id, NoReq, 500, NoResp)
    /\ UNCHANGED <<Store, Env>>

\* create_sale up to db.flush(), which takes the place of a commit in this variant.
create_sale_flush_commits(session, sale) ==
    LET id == last_id.sales + 1 IN
    /\ session \notin DOMAIN sessions
    /\ last_id.sales < MaxSales
    /\ sale.payment_received_now > 0 => last_id.payments < MaxPayments
    /\ sales' = With(sales, id,
                     [date |-> sale.date, buyer_id |-> sale.buyer_id,
                      payment_type |-> sale.payment_type,
                      payment_received_now |-> sale.payment_received_now,
                      total_amount |-> ItemsTotal(sale.sale_items)])
    /\ sessions' = With(sessions, session,
                        [name |-> "create_sale", pc |-> "flushed", id |-> id, req |-> sale])
    /\ last_id' = [last_id EXCEPT !.sales = id]
    /\ UNCHANGED <<op, buyers, sale_items, payments, PurchaseSide, Env>>

\* create_sale up to db.flush(): the sale row is inserted in the session's
\* transaction and has its id, and is not committed.
create_sale_flush(session, sale) ==
    LET id == last_id.sales + 1 IN
    /\ session \notin DOMAIN sessions
    /\ last_id.sales < MaxSales
    /\ sale.payment_received_now > 0 => last_id.payments < MaxPayments
    /\ IF fk_enforced /\ sale.buyer_id \notin DOMAIN buyers
       THEN /\ op' = Call("create_sale", 0, NoReq, 500, NoResp)
            /\ UNCHANGED <<Store, Env, sessions>>
       ELSE /\ sessions' = With(sessions, session,
                                [name |-> "create_sale", pc |-> "flushed",
                                 id |-> id, req |-> sale])
            /\ last_id' = [last_id EXCEPT !.sales = id]
            /\ UNCHANGED <<op, BuyerSide, PurchaseSide, Env>>

\* create_sale from the loop over the items to its return: the items and the
\* payment are added and the one db.commit() of the handler writes all rows.
create_sale_commit(session) ==
    /\ session \in DOMAIN sessions
    /\ sessions[session].name = "create_sale"
    /\ LET sale == sessions[session].req
           id == sessions[session].id
           n == Len(sale.sale_items)
       IN
       /\ sale.payment_received_now > 0 => last_id.payments < MaxPayments
       /\ sessions' = Without(sessions, session)
       /\ IF ~SaleForeignKeysOk(sale.buyer_id, sale.sale_items)
          THEN /\ op' = Call("create_sale", id, NoReq, 500, NoResp)
               /\ UNCHANGED <<Store, Env>>
          ELSE /\ sales' = With(sales, id,
                                [date |-> sale.date, buyer_id |-> sale.buyer_id,
                                 payment_type |-> sale.payment_type,
                                 payment_received_now |-> sale.payment_received_now,
                                 total_amount |-> ItemsTotal(sale.sale_items)])
               /\ sale_items' =
                     [i \in DOMAIN sale_items
                            \cup (last_id.sale_items + 1 .. last_id.sale_items + n) |->
                        IF i \in DOMAIN sale_items THEN sale_items[i]
                        ELSE LET item == sale.sale_items[i - last_id.sale_items] IN
                             [sale_id |-> id, product_type_id |-> item.product_type_id,
                              quantity |-> item.quantity,
                              price_per_unit |-> item.price_per_unit,
                              total_price |-> item.quantity * item.price_per_unit]]
               /\ payments' =
                     IF sale.payment_received_now > 0
                     THEN With(payments, last_id.payments + 1,
                               [date |-> sale.date, buyer_id |-> sale.buyer_id,
                                amount |-> sale.payment_received_now,
                                payment_method |-> "Cash",
                                notes |-> <<"Payment for Sale #", id>>])
                     ELSE payments
               /\ last_id' = [last_id EXCEPT
                                 !.sale_items = @ + n,
                                 !.payments = IF sale.payment_received_now > 0
                                              THEN @ + 1 ELSE @]
               /\ op' = Call("create_sale", id, sale, 201, NoResp)
               /\ UNCHANGED <<buyers, PurchaseSide, Env>>

\* create_purchase up to db.add(db_purchase), with no commit before the expense.
create_purchase_add_only(session, purchase) ==
    /\ session \notin DOMAIN sessions
    /\ last_id.purchases < MaxPurchases
    /\ purchase.transport_cost > 0 => last_id.expenses < MaxExpenses
    /\ sessions' = With(sessions, session,
                        [name |-> "create_purchase", pc |-> "purchase_committed",
                         id |-> last_id.purchases + 1, req |-> purchase])
    /\ last_id' = [last_id EXCEPT !.purchases = @ + 1]
    /\ UNCHANGED <<op, BuyerSide, PurchaseSide, Env>>

\* create_purchase up to its first db.commit() and refresh: the purchase row is
\* committed.
create_purchase_commit_purchase(session, purchase) ==
    LET id == last_id.purchases + 1 IN
    /\ session \notin DOMAIN sessions
    /\ last_id.purchases < MaxPurchases
    /\ purchase.transport_cost > 0 => last_id.expenses < MaxExpenses
    /\ purchases' = With(purchases, id,
                         [date |-> purchase.date, seller_name |-> purchase.seller_name,
                          transport_service |-> purchase.transport_service,
                          transport_cost |-> purchase.transport_cost,
                          quantity |-> purchase.quantity,
                          price_per_unit |-> purchase.price_per_unit,
                          total_purchase_cost |->
                              TotalPurchaseCost(purchase.quantity, purchase.price_per_unit,
                                                purchase.transport_cost)])
    /\ sessions' = With(sessions, session,
                        [name |-> "create_purchase", pc |-> "purchase_committed",
                         id |-> id, req |-> purchase])
    /\ last_id' = [last_id EXCEPT !.purchases = id]
    /\ UNCHANGED <<op, expenses, exp_origin, key_intact, BuyerSide, Env>>

\* create_purchase from "if purchase.transport_cost > 0" to its return: the
\* expense is added and committed by the second db.commit().
create_purchase_commit_expense(session) ==
    /\ session \in DOMAIN sessions
    /\ sessions[session].name = "create_purchase"
    /\ LET purchase == sessions[session].req
           id == sessions[session].id
           eid == last_id.expenses + 1
       IN
       /\ IF purchase.transport_cost > 0
          THEN /\ last_id.expenses < MaxExpenses
               /\ expenses' = With(expenses, eid,
                                   [date |-> purchase.date, category |-> "Transport",
                                    amount |-> purchase.transport_cost,
                                    description |-> TransportDescription(
                                        purchase.seller_name, purchase.transport_service)])
               /\ last_id' = [last_id EXCEPT !.expenses = eid]
               /\ exp_origin' = With(exp_origin, eid, id)
               /\ key_intact' = With(key_intact, id, eid)
          ELSE UNCHANGED <<expenses, last_id, exp_origin, key_intact>>
       /\ sessions' = Without(sessions, session)
       /\ op' = Call("create_purchase", id, purchase, 201, NoResp)
       /\ UNCHANGED <<purchases, BuyerSide, Env>>

\* update_purchase up to its first db.commit() and refresh: the purchase row is
\* updated and committed; db_purchase holds the row as refreshed.
update_purchase_commit(session, purchase_id, purchase_update) ==
    /\ session \notin DOMAIN sessions
    /\ IF purchase_id \notin DOMAIN purchases
       THEN /\ op' = Call("update_purchase", purchase_id, NoReq, 404, NoResp)
            /\ UNCHANGED <<Store, Env, sessions>>
       ELSE LET db_purchase == UpdatedPurchase(purchases[purchase_id], purchase_update) IN
            /\ purchases' = [purchases EXCEPT ![purchase_id] = db_purchase]
            /\ key_intact' = KeyIntactAfter(purchase_id, db_purchase)
            /\ IF transport_cost_changed(purchase_update)
               THEN /\ sessions' = With(sessions, session,
                                        [name |-> "update_purchase", pc |-> "committed",
                                         id |-> purchase_id, req |-> purchase_update,
                                         db_purchase |-> db_purchase])
                    /\ UNCHANGED op
               ELSE /\ op' = Call("update_purchase", purchase_id, purchase_update, 200, NoResp)
                    /\ UNCHANGED sessions
            /\ UNCHANGED <<expenses, exp_origin, last_id, BuyerSide, Env>>

\* update_purchase, the query for existing_expense: .first() of the rows that
\* match at the time of the query, or None, kept as a set of at most one id.
update_purchase_lookup(session) ==
    /\ session \in DOMAIN sessions
    /\ sessions[session].name = "update_purchase"
    /\ sessions[session].pc = "committed"
    /\ LET db_purchase == sessions[session].db_purchase
           matches == TransportExpenseMatches(db_purchase.date, db_purchase.seller_name)
       IN \E existing_expense \in IF matches = {} THEN {{}} ELSE {{e} : e \in matches} :
             sessions' = [sessions EXCEPT ![session] =
                             [name |-> "update_purchase", pc |-> "looked_up",
                              id |-> @.id, req |-> @.req, db_purchase |-> db_purchase,
                              existing_expense |-> existing_expense]]
    /\ UNCHANGED <<op, Store, Env>>

\* update_purchase from "if existing_expense" to its return: the expense found
\* is updated or deleted, or a new one is added, and the second db.commit()
\* writes it.
update_purchase_sync(session) ==
    /\ session \in DOMAIN sessions
    /\ sessions[session].name = "update_purchase"
    /\ sessions[session].pc = "looked_up"
    /\ LET db_purchase == sessions[session].db_purchase
           purchase_id == sessions[session].id
           transport_cost == db_purchase.transport_cost
           existing == sessions[session].existing_expense
           eid == last_id.expenses + 1
       IN
       /\ sessions' = Without(sessions, session)
       /\ IF existing # {} /\ transport_cost > 0 /\ ~(existing \subseteq DOMAIN expenses)
          THEN \* the UPDATE finds no row: StaleDataError, nothing is written
               /\ op' = Call("update_purchase", purchase_id, NoReq, 500, NoResp)
               /\ UNCHANGED <<expenses, exp_origin, last_id>>
          ELSE
          /\ op' = Call("update_purchase", purchase_id, sessions[session].req, 200, NoResp)
          /\ IF existing # {}
             THEN IF transport_cost > 0
                  THEN /\ expenses' =
                             [e \in DOMAIN expenses |->
                                 IF e \in existing
                                 THEN [expenses[e] EXCEPT
                                          !.amount = transport_cost,
                                          !.description = TransportDescription(
                                              db_purchase.seller_name,
                                              db_purchase.transport_service)]
                                 ELSE expenses[e]]
                       /\ UNCHANGED <<exp_origin, last_id>>
                  ELSE /\ expenses' = [e \in DOMAIN expenses \ existing |-> expenses[e]]
                       /\ exp_origin' = [e \in DOMAIN exp_origin \ existing |-> exp_origin[e]]
                       /\ UNCHANGED last_id
             ELSE IF transport_cost > 0
             THEN /\ last_id.expenses < MaxExpenses
                  /\ expenses' = With(expenses, eid,
                                      [date |-> db_purchase.date, category |-> "Transport",
                                       amount |-> transport_cost,
                                       description |-> TransportDescription(
                                           db_purchase.seller_name,
                                           db_purchase.transport_service)])
                  /\ exp_origin' = With(exp_origin, eid, purchase_id)
                  /\ last_id' = [last_id EXCEPT !.expenses = eid]
             ELSE UNCHANGED <<expenses, exp_origin, last_id>>
       /\ UNCHANGED <<purchases, key_intact, BuyerSide, Env>>

-----------------------------------------------------------------------------
(* The store after start-up: main.py creates the tables and seeds the       *)
(* product types of seed_data.py; every other business table is empty.      *)

SeededProductTypes ==
    <<[name |-> "Ply", description |-> "Plywood sheets"],
      [name |-> "Lafa", description |-> "Lafa wood pieces"],
      [name |-> "Jalav", description |-> "Jalav wood"],
      [name |-> "Sheet", description |-> "Wood sheets"],
      [name |-> "Chavi", description |-> "Chavi wood"],
      [name |-> "Khili", description |-> "Khili wood pieces"]>>

Empty == <<>>

InitStore ==
    /\ buyers = Empty
    /\ sales = Empty
    /\ sale_items = Empty
    /\ payments = Empty
    /\ purchases = Empty
    /\ expenses = Empty
    /\ product_types = SeededProductTypes
    /\ last_id = [buyers |-> 0, sales |-> 0, sale_items |-> 0, payments |-> 0,
                  purchases |-> 0, expenses |-> 0, product_types |-> Len(SeededProductTypes)]
    /\ exp_origin = Empty
    /\ key_intact = Empty
    /\ sessions = Empty
    /\ op = Call("startup", 0, NoReq, 0, NoResp)

\* Calendar dates the requests of the model carry.
Dec20 == <<2023, 12, 20>>
Jan05 == <<2024, 1, 5>>
Mar02 == <<2024, 3, 2>>

-----------------------------------------------------------------------------
(* Buyers with their sales and payments: every interleaving of the write    *)
(* handlers and of the views that report a balance.                         *)

BuyerIds == 1..MaxBuyers
SaleIds == 1..MaxSales

Item(product_type_id, quantity, price_per_unit) ==
    [product_type_id |-> product_type_id, quantity |-> quantity,
     price_per_unit |-> price_per_unit]

BuyerCreates ==
    {[name |-> "Asha", opening_balance |-> 0], [name |-> "Asha", opening_balance |-> 2],
     [name |-> "Bela", opening_balance |-> 2]}
BuyerUpdates == {[opening_balance |-> 0]}
SaleCreates ==
    [date : {Jan05}, buyer_id : BuyerIds, payment_type : {"Credit"},
     payment_received_now : {0, 1}, sale_items : {<<Item(1, 2, 3)>>}]
SaleUpdates == [buyer_id : BuyerIds]
PaymentCreates == [date : {Jan05}, amount : {2}, payment_method : {"Cash"}, notes : {<<>>}]
TopLimits == {1, 10}

InitBuyers ==
    /\ InitStore
    /\ today = Jan05
    /\ fk_enforced = FALSE

NextBuyers ==
    \/ \E buyer \in BuyerCreates : create_buyer(buyer)
    \/ \E buyer_id \in BuyerIds, buyer_update \in BuyerUpdates :
          update_buyer(buyer_id, buyer_update)
    \/ \E buyer_id \in BuyerIds : delete_buyer(buyer_id)
    \/ \E buyer_id \in BuyerIds, payment \in PaymentCreates : add_payment(buyer_id, payment)
    \/ \E sale \in SaleCreates : create_sale(sale)
    \/ \E sale_id \in SaleIds, sale_update \in SaleUpdates : update_sale(sale_id, sale_update)
    \/ \E sale_id \in SaleIds : delete_sale(sale_id)
    \/ get_buyers_list
    \/ \E buyer_id \in BuyerIds : get_buyer(buyer_id)
    \/ \E limit \in TopLimits : get_top_buyers(limit)
    \/ get_dashboard_summary

SpecBuyers == InitBuyers /\ [][NextBuyers]_vars

\* What a buyer owes, from the rows of the store.
Owed(b) ==
    buyers[b].opening_balance
    + SumOver([s \in DOMAIN sales |-> sales[s].total_amount],
              {s \in DOMAIN sales : sales[s].buyer_id = b})
    - SumOver([p \in DOMAIN payments |-> payments[p].amount],
              {p \in DOMAIN payments : payments[p].buyer_id = b})

Injections(n, S) ==
    {f \in [1..n -> S] : \A i, j \in 1..n : i # j => f[i] # f[j]}

(* C1: whenever a view reports a buyer's outstanding balance (buyer detail,
   buyers list, top buyers, the dashboard's total receivable), the reported
   value is opening_balance + the total_amount of the buyer's current sales
   - the amount of the buyer's current payments. *)
C1_OutstandingBalance ==
    /\ (op.name = "get_buyer" /\ op.status = 200) =>
          op.resp.outstanding_balance = Owed(op.id)
    /\ op.name = "get_buyers_list" =>
          /\ {op.resp[i].id : i \in 1..Len(op.resp)} = DOMAIN buyers
          /\ \A i \in 1..Len(op.resp) : op.resp[i].outstanding_balance = Owed(op.resp[i].id)
    /\ op.name = "get_top_buyers" =>
          \A i \in 1..Len(op.resp) :
              \E b \in DOMAIN buyers :
                  /\ op.resp[i].buyer_name = buyers[b].name
                  /\ op.resp[i].outstanding_amount = Owed(b)
    /\ op.name = "get_dashboard_summary" =>
          op.resp.total_receivable = SumOver([b \in DOMAIN buyers |-> Owed(b)], DOMAIN buyers)

C1_Witness ==
    /\ op.name = "get_buyer" /\ op.status = 200
    /\ Cardinality({s \in DOMAIN sales : sales[s].buyer_id = op.id}) = 2
    /\ Cardinality({p \in DOMAIN payments : payments[p].buyer_id = op.id}) = 2
    /\ buyers[op.id].opening_balance # 0

(* C7: delete_buyer on an existing buyer that has a sale or a payment is
   rejected with an error and leaves buyers, sales, sale items and payments
   unchanged; on a buyer with neither it removes exactly that buyer. *)
C7_DeleteBuyer ==
    [][(op'.name = "delete_buyer" /\ op'.id \in DOMAIN buyers) =>
          IF \/ \E s \in DOMAIN sales : sales[s].buyer_id = op'.id
             \/ \E p \in DOMAIN payments : payments[p].buyer_id = op'.id
          THEN /\ op'.status = 400
               /\ UNCHANGED <<buyers, sales, sale_items, payments>>
          ELSE /\ op'.status = 200
               /\ DOMAIN buyers' = DOMAIN buyers \ {op'.id}
               /\ \A b \in DOMAIN buyers' : buyers'[b] = buyers[b]
               /\ UNCHANGED <<sales, sale_items, payments>>]_vars

C7_Witness ==
    /\ op.name = "delete_buyer" /\ op.status = 400
    /\ \E s \in DOMAIN sales : sales[s].buyer_id = op.id

(* C8, as claimed: the entries of get_top_buyers are strictly descending by
   outstanding_amount. *)
C8_StrictlyDescending ==
    op.name = "get_top_buyers" =>
        \A i \in 1..(Len(op.resp) - 1) :
            op.resp[i].outstanding_amount > op.resp[i + 1].outstanding_amount

(* C8, amended: the entries of get_top_buyers are in non-increasing order of
   outstanding_amount; buyers that owe the same amount are adjacent. *)
C8_Descending ==
    op.name = "get_top_buyers" =>
        \A i \in 1..(Len(op.resp) - 1) :
            op.resp[i].outstanding_amount >= op.resp[i + 1].outstanding_amount

C8_Witness ==
    /\ op.name = "get_top_buyers"
    /\ Len(op.resp) = 2
    /\ op.resp[1].outstanding_amount > op.resp[2].outstanding_amount

(* C9: get_top_buyers(limit = K) returns min(K, number of buyers that owe
   more than 0) entries, each the name and balance of a distinct buyer that
   owes more than 0, and no such buyer left out owes more than a returned one. *)
C9_TopK ==
    op.name = "get_top_buyers" =>
        LET owing == {b \in DOMAIN buyers : Owed(b) > 0}
            n == Len(op.resp)
        IN /\ n = Min(op.req, Cardinality(owing))
           /\ \E f \in Injections(n, owing) :
                 /\ \A i \in 1..n :
                       /\ op.resp[i].buyer_name = buyers[f[i]].name
                       /\ op.resp[i].outstanding_amount = Owed(f[i])
                 /\ \A b \in owing \ {f[i] : i \in 1..n} :
                       \A i \in 1..n : Owed(b) <= op.resp[i].outstanding_amount

C9_Witness ==
    /\ op.name = "get_top_buyers" /\ op.req = 1
    /\ Len(op.resp) = 1
    /\ \E b \in DOMAIN buyers : Owed(b) > 0 /\ Owed(b) < op.resp[1].outstanding_amount

-----------------------------------------------------------------------------
(* The sale handlers on their own, with requests that vary the item list,   *)
(* the payment received and the rows the sale refers to.                    *)

SalesBuyerCreates == {[name |-> "Asha", opening_balance |-> 0]}
SalesItemLists ==
    {<<>>, <<Item(1, 10, 5), Item(2, 2, 3)>>, <<Item(2, 1, 1), Item(2, 1, 1)>>}
SalesSaleCreates ==
    [date : {Jan05}, buyer_id : BuyerIds, payment_type : {"Credit"},
     payment_received_now : {0, 20}, sale_items : SalesItemLists]
SalesSaleUpdates ==
    {[buyer_id |-> 2], [payment_received_now |-> 5, payment_type |-> "Paid"]}

InitSales ==
    /\ InitStore
    /\ today = Jan05
    /\ fk_enforced \in BOOLEAN

NextSales ==
    \/ \E buyer \in SalesBuyerCreates : create_buyer(buyer)
    \/ \E buyer_id \in BuyerIds : delete_buyer(buyer_id)
    \/ \E sale \in SalesSaleCreates : create_sale(sale)
    \/ \E sale_id \in SaleIds, sale_update \in SalesSaleUpdates :
          update_sale(sale_id, sale_update)
    \/ \E sale_id \in SaleIds : delete_sale(sale_id)

SpecSales == InitSales /\ [][NextSales]_vars

RECURSIVE SumTo(_, _)
SumTo(f, n) == IF n = 0 THEN 0 ELSE SumTo(f, n - 1) + f[n]

(* C6: a create_sale that succeeds with items i1..in stores a sale whose
   total_amount is the sum of quantity x price_per_unit over the items,
   stores exactly n sale items for it, each with total_price = quantity x
   price_per_unit, and exactly one payment (same buyer, same date, amount =
   payment_received_now) if payment_received_now > 0, no payment otherwise;
   no other row changes. *)
C6_CreateSale ==
    [][(op'.name = "create_sale" /\ op'.status = 201) =>
          LET sale == op'.req
              id == op'.id
              n == Len(sale.sale_items)
              new_items == DOMAIN sale_items' \ DOMAIN sale_items
              new_payments == DOMAIN payments' \ DOMAIN payments
          IN /\ id \notin DOMAIN sales
             /\ DOMAIN sales' = DOMAIN sales \cup {id}
             /\ \A s \in DOMAIN sales : sales'[s] = sales[s]
             /\ sales'[id].total_amount =
                   SumTo([i \in 1..n |-> sale.sale_items[i].quantity
                                         * sale.sale_items[i].price_per_unit], n)
             /\ sales'[id].buyer_id = sale.buyer_id
             /\ sales'[id].date = sale.date
             /\ \A i \in DOMAIN sale_items : i \in DOMAIN sale_items' /\ sale_items'[i] = sale_items[i]
             /\ Cardinality(new_items) = n
             /\ \E f \in Injections(n, new_items) :
                   \A i \in 1..n :
                       sale_items'[f[i]] =
                           [sale_id |-> id,
                            product_type_id |-> sale.sale_items[i].product_type_id,
                            quantity |-> sale.sale_items[i].quantity,
                            price_per_unit |-> sale.sale_items[i].price_per_unit,
                            total_price |-> sale.sale_items[i].quantity
                                            * sale.sale_items[i].price_per_unit]
             /\ \A p \in DOMAIN payments : p \in DOMAIN payments' /\ payments'[p] = payments[p]
             /\ IF sale.payment_received_now > 0
                THEN /\ Cardinality(new_payments) = 1
                     /\ \A p \in new_payments :
                           /\ payments'[p].buyer_id = sale.buyer_id
                           /\ payments'[p].date = sale.date
                           /\ payments'[p].amount = sale.payment_received_now
                ELSE new_payments = {}]_vars

\* The sale of the spec's example: items (10 x 5) and (2 x 3), 20 received.
C6_Witness ==
    /\ op.name = "create_sale" /\ op.status = 201
    /\ op.req.sale_items = <<Item(1, 10, 5), Item(2, 2, 3)>>
    /\ op.req.payment_received_now = 20
    /\ sales[op.id].total_amount = 56
    /\ {sale_items[i].total_price : i \in sale_sale_items(op.id)} = {50, 6}
    /\ \E p \in DOMAIN payments : payments[p].amount = 20
    /\ Cardinality(DOMAIN sales) = 2

(* C13: in every reachable state every sale's total_amount is the sum of
   total_price over the sale items that belong to it, and every sale item's
   total_price is its quantity x price_per_unit; update_sale keeps it so. *)
C13_SaleTotals ==
    /\ \A s \in DOMAIN sales :
          sales[s].total_amount =
              SumOver([i \in DOMAIN sale_items |-> sale_items[i].total_price],
                      {i \in DOMAIN sale_items : sale_items[i].sale_id = s})
    /\ \A i \in DOMAIN sale_items :
          sale_items[i].total_price = sale_items[i].quantity * sale_items[i].price_per_unit

C13_Witness ==
    /\ op.name = "update_sale" /\ op.status = 200
    /\ op.req = [payment_received_now |-> 5, payment_type |-> "Paid"]
    /\ sales[op.id].total_amount = 56
    /\ Cardinality({i \in DOMAIN sale_items : sale_items[i].sale_id = op.id}) = 2

(* C17: delete_sale removes the sale and every sale item that belongs to it,
   and no sale item of another sale; afterwards no sale item references the
   deleted sale. *)
C17_DeleteSaleCascade ==
    [][(op'.name = "delete_sale" /\ op'.status = 200) =>
          /\ DOMAIN sales' = DOMAIN sales \ {op'.id}
          /\ DOMAIN sale_items' =
                {i \in DOMAIN sale_items : sale_items[i].sale_id # op'.id}
          /\ \A i \in DOMAIN sale_items' :
                sale_items'[i] = sale_items[i] /\ sale_items'[i].sale_id # op'.id]_vars

C17_Witness ==
    /\ op.name = "delete_sale" /\ op.status = 200
    /\ last_id.sales = 2 /\ last_id.sale_items = 4
    /\ Cardinality(DOMAIN sales) = 1
    /\ Cardinality(DOMAIN sale_items) = 2
    /\ \A i \in DOMAIN sale_items : sale_items[i].sale_id \in DOMAIN sales

(* C26: update_sale and delete_sale leave the payments table as it was, so the
   payment create_sale records for payment_received_now = p > 0 stays credited
   to the buyer of the create request when the sale is deleted, when its
   payment_received_now is changed and when it is moved to another buyer_id.
   A create_sale of total T with p > 0 raises that buyer's outstanding balance
   by T - p, and a delete_sale that directly follows lowers it by T: the
   balance ends p below what it was before the create. *)
C26_PaymentsOutliveSales ==
    [][LET Balance(b, buyer_rows, sale_rows, payment_rows) ==
               buyer_rows[b].opening_balance
               + SumOver([s \in DOMAIN sale_rows |-> sale_rows[s].total_amount],
                         {s \in DOMAIN sale_rows : sale_rows[s].buyer_id = b})
               - SumOver([p \in DOMAIN payment_rows |-> payment_rows[p].amount],
                         {p \in DOMAIN payment_rows : payment_rows[p].buyer_id = b})
       IN
       /\ op'.name \in {"update_sale", "delete_sale"} => payments' = payments
       /\ (/\ op'.name = "create_sale" /\ op'.status = 201
           /\ op'.req.payment_received_now > 0
           /\ op'.req.buyer_id \in DOMAIN buyers)
          => Balance(op'.req.buyer_id, buyers', sales', payments') =
                outstanding_balance(op'.req.buyer_id)
                + sales'[op'.id].total_amount - op'.req.payment_received_now
       /\ (/\ op.name = "create_sale" /\ op.status = 201
           /\ op.req.payment_received_now > 0
           /\ op.req.buyer_id \in DOMAIN buyers
           /\ op'.name = "delete_sale" /\ op'.status = 200 /\ op'.id = op.id)
          => Balance(op.req.buyer_id, buyers', sales', payments') =
                (outstanding_balance(op.req.buyer_id)
                 - (sales[op.id].total_amount - op.req.payment_received_now))
                - op.req.payment_received_now]_vars

C26_Witness ==
    /\ op.name = "delete_sale" /\ op.status = 200
    /\ sales = Empty
    /\ last_id.sales = 1
    /\ \E p \in DOMAIN payments :
          /\ payments[p].notes = <<"Payment for Sale #", op.id>>
          /\ payments[p].amount = 20
          /\ payments[p].buyer_id \in DOMAIN buyers
          /\ outstanding_balance(payments[p].buyer_id)
                = buyers[payments[p].buyer_id].opening_balance - 20

-----------------------------------------------------------------------------
(* The buyer ledger over sales and payments on two dates.                   *)

LedgerBuyerCreates == {[name |-> "Asha", opening_balance |-> 2]}
LedgerBuyerUpdates == {[opening_balance |-> 0]}
LedgerSaleCreates ==
    [date : {Dec20, Jan05}, buyer_id : BuyerIds, payment_type : {"Credit"},
     payment_received_now : {0}, sale_items : {<<Item(1, 2, 3)>>}]
LedgerSaleUpdates == [date : {Dec20}]
LedgerPaymentCreates ==
    [date : {Dec20, Jan05}, amount : {2}, payment_method : {"Cash"}, notes : {<<>>}]
LedgerStarts == {NoDate, Jan05}
LedgerEnds == {NoDate, Dec20}

NextLedger ==
    \/ \E buyer \in LedgerBuyerCreates : create_buyer(buyer)
    \/ \E buyer_id \in BuyerIds, buyer_update \in LedgerBuyerUpdates :
          update_buyer(buyer_id, buyer_update)
    \/ \E buyer_id \in BuyerIds, payment \in LedgerPaymentCreates :
          add_payment(buyer_id, payment)
    \/ \E sale \in LedgerSaleCreates : create_sale(sale)
    \/ \E sale_id \in SaleIds, sale_update \in LedgerSaleUpdates :
          update_sale(sale_id, sale_update)
    \/ \E sale_id \in SaleIds : delete_sale(sale_id)
    \/ \E buyer_id \in BuyerIds, start_date \in LedgerStarts, end_date \in LedgerEnds :
          get_buyer_ledger(buyer_id, start_date, end_date)

SpecLedger == InitBuyers /\ [][NextLedger]_vars

(* C2: for a buyer with at least one sale or payment, get_buyer_ledger without
   start_date and end_date returns a non-empty list of entries whose last
   running balance is the buyer's current outstanding balance. *)
C2_LedgerEndsAtOutstanding ==
    (/\ op.name = "get_buyer_ledger" /\ op.status = 200
     /\ op.req.start_date = NoDate /\ op.req.end_date = NoDate
     /\ \/ \E s \in DOMAIN sales : sales[s].buyer_id = op.id
        \/ \E p \in DOMAIN payments : payments[p].buyer_id = op.id)
    => /\ op.resp.entries # <<>>
       /\ op.resp.entries[Len(op.resp.entries)].balance = Owed(op.id)

C2_Witness ==
    /\ op.name = "get_buyer_ledger" /\ op.status = 200
    /\ op.req.start_date = NoDate /\ op.req.end_date = NoDate
    /\ Len(op.resp.entries) = 3
    /\ op.resp.entries[1].type = "PAYMENT"
    /\ op.resp.entries[2].type = "SALE"
    /\ \E s \in DOMAIN sales : sales[s].buyer_id # op.id

\* The rows of a table that belong to a buyer and are dated in [start_date, end_date],
\* an absent limit leaving that side open.
RowsInRange(table, b, start_date, end_date) ==
    {r \in DOMAIN table :
        /\ table[r].buyer_id = b
        /\ (start_date = NoDate \/ ~DateLT(table[r].date, start_date))
        /\ (end_date = NoDate \/ ~DateLT(end_date, table[r].date))}

(* C11: a successful get_buyer_ledger(buyer, start_date, end_date) returns
   opening_balance = the buyer's stored opening_balance and closing_balance =
   opening_balance + the total_amount of the buyer's sales dated in the range
   - the amount of the buyer's payments dated in the range, and changes no
   stored data. *)
C11_LedgerClosingBalance ==
    [][(op'.name = "get_buyer_ledger" /\ op'.status = 200) =>
          LET b == op'.id
              in_sales == RowsInRange(sales, b, op'.req.start_date, op'.req.end_date)
              in_payments == RowsInRange(payments, b, op'.req.start_date, op'.req.end_date)
          IN /\ op'.resp.opening_balance = buyers[b].opening_balance
             /\ op'.resp.closing_balance =
                   buyers[b].opening_balance
                   + SumOver([s \in DOMAIN sales |-> sales[s].total_amount], in_sales)
                   - SumOver([p \in DOMAIN payments |-> payments[p].amount], in_payments)
             /\ UNCHANGED Store]_vars

C11_Witness ==
    /\ op.name = "get_buyer_ledger" /\ op.status = 200
    /\ op.req = [start_date |-> Jan05, end_date |-> NoDate]
    /\ \E s \in DOMAIN sales : sales[s].buyer_id = op.id /\ sales[s].date = Dec20
    /\ \E s \in DOMAIN sales : sales[s].buyer_id = op.id /\ sales[s].date = Jan05
    /\ \E p \in DOMAIN payments : payments[p].buyer_id = op.id /\ payments[p].date = Jan05
    /\ op.resp.closing_balance = buyers[op.id].opening_balance + 6 - 2
    /\ op.resp.closing_balance # Owed(op.id)

(* C21: the entries of a successful get_buyer_ledger are in non-decreasing date
   order; each sale of the buyer dated in the range appears exactly once, as a
   SALE entry with debit = total_amount and credit = 0; each payment of the
   buyer dated in the range appears exactly once, as a PAYMENT entry with
   credit = amount and debit = 0; there is no other entry; and among entries
   of one date every SALE entry precedes every PAYMENT entry. *)
C21_LedgerOrder ==
    (op.name = "get_buyer_ledger" /\ op.status = 200) =>
       LET entries == op.resp.entries
           n == Len(entries)
           in_sales == RowsInRange(sales, op.id, op.req.start_date, op.req.end_date)
           in_payments == RowsInRange(payments, op.id, op.req.start_date, op.req.end_date)
           sale_at == {i \in 1..n : entries[i].type = "SALE"}
           payment_at == {i \in 1..n : entries[i].type = "PAYMENT"}
       IN /\ \A i, j \in 1..n : i < j => DateLE(entries[i].date, entries[j].date)
          /\ sale_at \cup payment_at = 1..n
          /\ \A s \in in_sales :
                Cardinality({i \in sale_at :
                    /\ entries[i].description[2] = s
                    /\ entries[i].date = sales[s].date
                    /\ entries[i].debit = sales[s].total_amount
                    /\ entries[i].credit = 0}) = 1
          /\ Cardinality(sale_at) = Cardinality(in_sales)
          /\ Cardinality(payment_at) = Cardinality(in_payments)
          /\ \E f \in [payment_at -> in_payments] :
                /\ \A i, j \in payment_at : i # j => f[i] # f[j]
                /\ \A i \in payment_at :
                    /\ entries[i].date = payments[f[i]].date
                    /\ entries[i].credit = payments[f[i]].amount
                    /\ entries[i].debit = 0
          /\ \A i \in sale_at, j \in payment_at :
                entries[i].date = entries[j].date => i < j

C21_Witness ==
    /\ op.name = "get_buyer_ledger" /\ op.status = 200
    /\ Len(op.resp.entries) = 4
    /\ op.resp.entries[1].type = "PAYMENT" /\ op.resp.entries[1].date = Dec20
    /\ op.resp.entries[2].type = "SALE" /\ op.resp.entries[2].date = Jan05
    /\ op.resp.entries[3].type = "SALE" /\ op.resp.entries[3].date = Jan05
    /\ op.resp.entries[4].type = "PAYMENT" /\ op.resp.entries[4].date = Jan05

\* The service keeps answering requests.
FairSpecLedger == SpecLedger /\ WF_vars(NextLedger)

\* A ledger response with entries whose last running balance is not its closing_balance.
ClosingDiffersFromLastBalance ==
    /\ op.name = "get_buyer_ledger" /\ op.status = 200
    /\ op.resp.entries # <<>>
    /\ op.resp.entries[Len(op.resp.entries)].balance # op.resp.closing_balance

(* C20 as stated: some ledger request whose range leaves out earlier
   transactions of the buyer is answered with a non-empty list of entries whose
   last balance differs from closing_balance. *)
C20_ClosingMayDiffer == <>ClosingDiffersFromLastBalance

(* C20 as amended: every ledger response with at least one entry has its last
   entry's balance equal to closing_balance, whatever the range leaves out. *)
C20_ClosingIsLastBalance == ~ClosingDiffersFromLastBalance

C20_Witness ==
    /\ op.name = "get_buyer_ledger" /\ op.status = 200
    /\ op.req = [start_date |-> Jan05, end_date |-> NoDate]
    /\ \E p \in DOMAIN payments : payments[p].buyer_id = op.id /\ payments[p].date = Dec20
    /\ Len(op.resp.entries) = 1
    /\ op.resp.entries[1].balance = op.resp.closing_balance
    /\ op.resp.closing_balance # outstanding_balance(op.id)

-----------------------------------------------------------------------------
(* Purchases and the expenses derived from their transport cost, next to    *)
(* expenses entered directly.                                               *)

PurchaseIds == 1..MaxPurchases
ExpenseIds == 1..MaxExpenses

\* Seller names; the first is a prefix of the second.
Acme == <<"Acme">>
AcmeCo == <<"Acme", " Co">>

PurchaseCreates ==
    [date : {Dec20}, seller_name : {Acme}, transport_service : {<<>>},
     transport_cost : {0, 50}, quantity : {2}, price_per_unit : {3}]
    \cup [date : {Dec20}, seller_name : {AcmeCo}, transport_service : {<<"Van">>},
          transport_cost : {0, 50}, quantity : {2}, price_per_unit : {3}]
PurchaseUpdates == {[transport_cost |-> 0], [transport_cost |-> 75], [date |-> Jan05]}
ExpenseCreates ==
    {[date |-> Dec20, category |-> "Transport", amount |-> 30,
      description |-> <<"Extra for ", "purchase from ", "Acme">>],
     [date |-> Dec20, category |-> "Other", amount |-> 30, description |-> <<>>]}
ExpenseUpdates == {[amount |-> 10]}

InitPurchases ==
    /\ InitStore
    /\ today = Jan05
    /\ fk_enforced = FALSE

NextPurchases ==
    \/ \E purchase \in PurchaseCreates : create_purchase(purchase)
    \/ \E purchase_id \in PurchaseIds, purchase_update \in PurchaseUpdates :
          update_purchase(purchase_id, purchase_update)
    \/ \E purchase_id \in PurchaseIds : delete_purchase(purchase_id)
    \/ \E expense \in ExpenseCreates : create_expense(expense)
    \/ \E expense_id \in ExpenseIds, expense_update \in ExpenseUpdates :
          update_expense(expense_id, expense_update)
    \/ \E expense_id \in ExpenseIds : delete_expense(expense_id)

SpecPurchases == InitPurchases /\ [][NextPurchases]_vars

\* Every expense row of the current state but those in S is still there, unchanged.
ExpensesKeptExcept(S) ==
    \A e \in DOMAIN expenses \ S : e \in DOMAIN expenses' /\ expenses'[e] = expenses[e]

(* C3: create_purchase with transport_cost > 0 adds exactly one expense row,
   with category Transport, the purchase's date, amount transport_cost and a
   description containing "purchase from <seller_name>", and leaves every
   existing expense unchanged; with transport_cost 0 it adds no expense row. *)
C3_CreatePurchaseExpense ==
    [][op'.name = "create_purchase" =>
          LET purchase == op'.req
              added == DOMAIN expenses' \ DOMAIN expenses
          IN /\ ExpensesKeptExcept({})
             /\ IF purchase.transport_cost > 0
                THEN /\ Cardinality(added) = 1
                     /\ \A e \in added :
                           /\ expenses'[e].category = "Transport"
                           /\ expenses'[e].date = purchase.date
                           /\ expenses'[e].amount = purchase.transport_cost
                           /\ \E i \in 1..(Len(expenses'[e].description)
                                            - Len(purchase.seller_name)) :
                                 SubSeq(expenses'[e].description, i,
                                        i + Len(purchase.seller_name))
                                 = <<"purchase from ">> \o purchase.seller_name
                ELSE added = {}]_vars

C3_Witness ==
    /\ op.name = "create_purchase"
    /\ op.req.transport_cost = 50 /\ op.req.seller_name = Acme
    /\ Cardinality(DOMAIN expenses) = 2
    /\ \E e \in DOMAIN expenses : expenses[e].amount = 50 /\ exp_origin[e] = op.id

\* The step is update_purchase with transport_cost as its only field, on a
\* purchase that was created with transport_cost > 0, still has the date and
\* seller_name of its creation, and whose creation-time expense still exists.
UpdatesTransportCostOnly(cost) ==
    /\ op'.name = "update_purchase" /\ op'.status = 200
    /\ op'.req = [transport_cost |-> cost]
    /\ op'.id \in DOMAIN key_intact
    /\ key_intact[op'.id] \in DOMAIN expenses

(* C4: for a purchase created with transport_cost > 0 whose date and
   seller_name are unchanged, update_purchase(transport_cost = 0) deletes the
   expense that was created for it and leaves every other expense unchanged. *)
C4_ZeroDeletesOwnExpense ==
    [][UpdatesTransportCostOnly(0) =>
          /\ key_intact[op'.id] \notin DOMAIN expenses'
          /\ ExpensesKeptExcept({key_intact[op'.id]})]_vars

(* C5: for such a purchase, update_purchase(transport_cost = v), v > 0, sets
   the amount of the expense that was created for it to v, creates no expense
   row and leaves every other expense unchanged. *)
C5_CostUpdatesOwnExpense ==
    [][UpdatesTransportCostOnly(75) =>
          /\ DOMAIN expenses' = DOMAIN expenses
          /\ expenses'[key_intact[op'.id]].amount = 75
          /\ ExpensesKeptExcept({key_intact[op'.id]})]_vars

\* The expenses of the purchase's date and category Transport whose description
\* contains "purchase from <seller_name>".
ExpensesMatching(purchase) ==
    {e \in DOMAIN expenses :
        /\ expenses[e].date = purchase.date
        /\ expenses[e].category = "Transport"
        /\ \E i \in 1..(Len(expenses[e].description) - Len(purchase.seller_name)) :
              SubSeq(expenses[e].description, i, i + Len(purchase.seller_name))
              = <<"purchase from ">> \o purchase.seller_name}

(* C16: delete_purchase removes the purchase and no other purchase; when its
   transport_cost > 0 and some expense matches its date, category Transport
   and "purchase from <seller_name>", exactly one matching expense is removed
   too; when its transport_cost is 0 no expense is removed, even if one
   matches; the expenses that stay are unchanged. *)
C16_DeletePurchase ==
    [][(op'.name = "delete_purchase" /\ op'.status = 200) =>
          LET purchase == purchases[op'.id]
              removed == DOMAIN expenses \ DOMAIN expenses'
          IN /\ DOMAIN purchases' = DOMAIN purchases \ {op'.id}
             /\ \A p \in DOMAIN purchases' : purchases'[p] = purchases[p]
             /\ DOMAIN expenses' \subseteq DOMAIN expenses
             /\ ExpensesKeptExcept(removed)
             /\ IF purchase.transport_cost > 0 /\ ExpensesMatching(purchase) # {}
                THEN Cardinality(removed) = 1 /\ removed \subseteq ExpensesMatching(purchase)
                ELSE removed = {}]_vars

C16_Witness ==
    /\ op.name = "delete_purchase" /\ op.status = 200
    /\ op.resp.transport_cost = 0 /\ op.resp.seller_name = Acme /\ op.resp.date = Dec20
    /\ \E e \in DOMAIN expenses :
          /\ expenses[e].category = "Transport" /\ expenses[e].date = Dec20
          /\ expenses[e].description = <<"Extra for ", "purchase from ", "Acme">>

(* C27: create_purchase directly followed by delete_purchase of the purchase
   just created leaves the purchases table and the expenses table with the
   rows they had before the create, generated ids aside.  The create adds the
   purchase and, for transport_cost > 0, one expense (C3), so the delete has
   to remove that purchase and, for transport_cost > 0, one expense with the
   content of the expense the create added, and nothing else. *)
C27_CreateDeleteRoundTrip ==
    [][(/\ op.name = "create_purchase" /\ op.status = 201
        /\ op'.name = "delete_purchase" /\ op'.status = 200 /\ op'.id = op.id)
       => /\ purchases' = Without(purchases, op.id)
          /\ IF op.req.transport_cost > 0
             THEN \E removed \in DOMAIN expenses :
                     /\ expenses' = Without(expenses, removed)
                     /\ expenses[removed] = expenses[key_intact[op.id]]
             ELSE expenses' = expenses]_vars

(* C28: update_purchase and delete_purchase on a purchase with seller_name S
   leave unchanged every expense derived from a purchase whose seller_name is
   not S and every Transport expense entered through create_expense. *)
C28_OtherExpensesUntouched ==
    [][(op'.name \in {"update_purchase", "delete_purchase"} /\ op'.status = 200)
       => \A e \in DOMAIN expenses :
             (\/ e \notin DOMAIN exp_origin /\ expenses[e].category = "Transport"
              \/ /\ e \in DOMAIN exp_origin
                 /\ exp_origin[e] \in DOMAIN purchases
                 /\ purchases[exp_origin[e]].seller_name # purchases[op'.id].seller_name)
             => e \in DOMAIN expenses' /\ expenses'[e] = expenses[e]]_vars

(***************************************************************************)
(* Monthly statistics: purchases, sales and expenses dated in and around   *)
(* the window, read with every accepted value of months, in January and in *)
(* March.                                                                  *)
(***************************************************************************)
Jan15 == <<2024, 1, 15>>
Feb10 == <<2022, 2, 10>>
\* months: int = Query(default=12, ge=1, le=24)
MonthsQuery == 1..24
MonthlyBuyerCreates == {[name |-> "Asha", opening_balance |-> 0]}
MonthlySaleCreates ==
    [date : {Jan05}, buyer_id : {1}, payment_type : {"Credit"},
     payment_received_now : {0}, sale_items : {<<Item(1, 2, 3)>>}]
MonthlyPurchaseCreates ==
    [date : {Dec20, Jan05}, seller_name : {Acme}, transport_service : {<<>>},
     transport_cost : {0}, quantity : {2}, price_per_unit : {3}]
MonthlyExpenseCreates ==
    [date : {Feb10}, category : {"Other"}, amount : {30}, description : {<<>>}]

InitMonthly ==
    /\ InitStore
    /\ today \in {Jan15, Mar02}
    /\ fk_enforced = FALSE

NextMonthly ==
    \/ \E buyer \in MonthlyBuyerCreates : create_buyer(buyer)
    \/ \E sale \in MonthlySaleCreates : create_sale(sale)
    \/ \E purchase \in MonthlyPurchaseCreates : create_purchase(purchase)
    \/ \E expense \in MonthlyExpenseCreates : create_expense(expense)
    \/ \E months \in MonthsQuery : get_monthly_stats(months)

SpecMonthly == InitMonthly /\ [][NextMonthly]_vars

\* The calendar month a label "%b %Y" names, counted in months.
MonthOrdinal(label) ==
    label[2] * 12 + (CHOOSE k \in 1..12 : MonthAbbr[k] = label[1])

\* The rows of a table dated in the calendar month a label names.
RowsInMonth(table, label) ==
    {r \in DOMAIN table : table[r].date[1] * 12 + table[r].date[2] = MonthOrdinal(label)}

(* C10: get_monthly_stats(months = N) returns exactly N entries, for N
   consecutive calendar months, oldest first, the last one being the current
   month (December of the year before comes before January); an entry of a
   month with no purchase, sale or expense has purchases, sales, expenses and
   profit all zero. *)
C10_MonthlyStats ==
    op.name = "get_monthly_stats" =>
        LET N == op.req
            stats == op.resp
        IN /\ Len(stats) = N
           /\ \A i \in 1..N :
                 /\ stats[i].month[1] \in {MonthAbbr[k] : k \in 1..12}
                 /\ MonthOrdinal(stats[i].month) = today[1] * 12 + today[2] - (N - i)
                 /\ ( /\ RowsInMonth(purchases, stats[i].month) = {}
                      /\ RowsInMonth(sales, stats[i].month) = {}
                      /\ RowsInMonth(expenses, stats[i].month) = {} )
                    => /\ stats[i].purchases = 0
                       /\ stats[i].sales = 0
                       /\ stats[i].expenses = 0
                       /\ stats[i].profit = 0

C10_Witness ==
    /\ op.name = "get_monthly_stats"
    /\ today = Jan15
    /\ op.req = 3
    /\ op.resp[1].month = <<"Nov", 2023>>
    /\ op.resp[1].purchases = 0 /\ op.resp[1].profit = 0
    /\ op.resp[2].month = <<"Dec", 2023>>
    /\ op.resp[2].purchases > 0 /\ op.resp[2].profit < 0
    /\ op.resp[3].month = <<"Jan", 2024>>
    /\ op.resp[3].sales > 0

(***************************************************************************)
(* Purchase cost: purchases created and then updated with every subset of  *)
(* quantity, price_per_unit and transport_cost, and with none of them.     *)
(***************************************************************************)
CostPurchaseCreates ==
    [date : {Dec20}, seller_name : {Acme}, transport_service : {<<>>},
     transport_cost : {0, 50}, quantity : {2}, price_per_unit : {3}]
CostPurchaseUpdates ==
    {[quantity |-> 4], [price_per_unit |-> 5], [transport_cost |-> 0],
     [transport_cost |-> 75],
     [quantity |-> 4, price_per_unit |-> 5],
     [quantity |-> 2, transport_cost |-> 75],
     [price_per_unit |-> 3, transport_cost |-> 0],
     [quantity |-> 4, price_per_unit |-> 5, transport_cost |-> 50],
     [seller_name |-> AcmeCo]}

NextCost ==
    \/ \E purchase \in CostPurchaseCreates : create_purchase(purchase)
    \/ \E purchase_id \in PurchaseIds, purchase_update \in CostPurchaseUpdates :
          update_purchase(purchase_id, purchase_update)
    \/ \E purchase_id \in PurchaseIds : delete_purchase(purchase_id)

SpecCost == InitPurchases /\ [][NextCost]_vars

(* C12: in every reachable state every purchase has total_purchase_cost =
   quantity x price_per_unit + transport_cost, after create_purchase and after
   update_purchase calls supplying any subset of the three fields. *)
C12_TotalPurchaseCost ==
    \A p \in DOMAIN purchases :
        purchases[p].total_purchase_cost =
            purchases[p].quantity * purchases[p].price_per_unit + purchases[p].transport_cost

C12_Witness ==
    /\ op.name = "update_purchase" /\ op.status = 200
    /\ op.req = [quantity |-> 2, transport_cost |-> 75]
    /\ purchases[op.id].price_per_unit = 5
    /\ purchases[op.id].total_purchase_cost = 85

(***************************************************************************)
(* References: sales, payments and sale items written while buyers and     *)
(* product types come and go, on a store that may or may not enforce its   *)
(* FOREIGN KEY columns.                                                    *)
(***************************************************************************)
IntegritySaleCreates ==
    [date : {Jan05}, buyer_id : BuyerIds, payment_type : {"Credit"},
     payment_received_now : {0}, sale_items : {<<Item(1, 2, 3)>>, <<Item(2, 2, 3)>>}]
IntegrityProductTypeIds == {1, 2}

InitIntegrity ==
    /\ InitStore
    /\ today = Jan05
    /\ fk_enforced \in BOOLEAN

NextIntegrity ==
    \/ \E buyer \in SalesBuyerCreates : create_buyer(buyer)
    \/ \E buyer_id \in BuyerIds : delete_buyer(buyer_id)
    \/ \E sale \in IntegritySaleCreates : create_sale(sale)
    \/ \E sale_id \in SaleIds, sale_update \in SaleUpdates :
          update_sale(sale_id, sale_update)
    \/ \E buyer_id \in BuyerIds, payment \in PaymentCreates :
          add_payment(buyer_id, payment)
    \/ \E product_type_id \in IntegrityProductTypeIds : delete_product_type(product_type_id)

SpecIntegrity == InitIntegrity /\ [][NextIntegrity]_vars

\* No row refers to a row that is not there.
ReferencesExist ==
    /\ \A s \in DOMAIN sales : sales[s].buyer_id \in DOMAIN buyers
    /\ \A p \in DOMAIN payments : payments[p].buyer_id \in DOMAIN buyers
    /\ \A i \in DOMAIN sale_items :
          /\ sale_items[i].sale_id \in DOMAIN sales
          /\ sale_items[i].product_type_id \in DOMAIN product_types

(* C14: no step of create_sale, update_sale, add_payment, delete_buyer or
   delete_product_type leaves a sale or payment whose buyer is missing or a
   sale item whose sale or product type is missing, and delete_product_type
   on a product type some sale item uses is rejected with the store
   unchanged. *)
C14_ReferentialIntegrity ==
    [][/\ ReferencesExist'
       /\ (/\ op'.name = "delete_product_type"
           /\ \E i \in DOMAIN sale_items : sale_items[i].product_type_id = op'.id)
          => (op'.status = 400 /\ UNCHANGED Store)]_vars

(***************************************************************************)
(* Product types: the seeded types and one more, created, renamed and      *)
(* deleted.                                                                *)
(***************************************************************************)
\* A seeded product type and the first one created after the seeding.
ProductTypeIds == {1, Len(SeededProductTypes) + 1}
ProductTypeCreates ==
    {[name |-> "Ply"], [name |-> "Teak", description |-> "Teak wood"]}
ProductTypeUpdates ==
    {[name |-> "Ply"], [name |-> "Ply", description |-> "Sheets"],
     [name |-> "Teak"], [name |-> "Lafa"]}

NextProductTypes ==
    \/ \E product_type \in ProductTypeCreates : create_product_type(product_type)
    \/ \E product_type_id \in ProductTypeIds, product_type_update \in ProductTypeUpdates :
          update_product_type(product_type_id, product_type_update)
    \/ \E product_type_id \in ProductTypeIds : delete_product_type(product_type_id)

SpecProductTypes == InitBuyers /\ [][NextProductTypes]_vars

\* No two product types have the same name.
UniqueNames ==
    \A t, u \in DOMAIN product_types :
        product_types[t].name = product_types[u].name => t = u

(* C15: after every step no two product types have the same name; a
   create_product_type or update_product_type whose name is the name of
   another product type is rejected (400) and leaves the product types
   unchanged; an update_product_type that gives a product type its own current
   name is accepted. *)
C15_UniqueProductTypeNames ==
    [][/\ UniqueNames'
       /\ (op'.name = "create_product_type"
           /\ \E t \in DOMAIN product_types : product_types[t].name = op'.req.name)
          => (op'.status = 400 /\ product_types' = product_types)
       /\ (op'.name = "update_product_type" /\ op'.status # 404
           /\ \E t \in DOMAIN product_types \ {op'.id} : product_types[t].name = op'.req.name)
          => (op'.status = 400 /\ product_types' = product_types)
       /\ (op'.name = "update_product_type" /\ op'.status # 404
           /\ product_types[op'.id].name = op'.req.name)
          => op'.status = 200]_vars

C15_Witness ==
    /\ op.name = "update_product_type" /\ op.status = 400
    /\ op.id = Len(SeededProductTypes) + 1 /\ op.req = [name |-> "Ply"]
    /\ product_types[op.id].name = "Teak"
    /\ product_types[1].name = "Ply" /\ product_types[1].description = "Sheets"

(***************************************************************************)
(* Updates: one row of every entity, updated with some of its fields.      *)
(***************************************************************************)
FrameBuyerUpdates == {[opening_balance |-> 0], [name |-> "Bela"]}
FrameSaleCreates ==
    [date : {Jan05}, buyer_id : {1}, payment_type : {"Credit"},
     payment_received_now : {0}, sale_items : {<<Item(1, 2, 3)>>}]
FrameSaleUpdates == {[date |-> Dec20], [payment_type |-> "Paid"]}
FramePurchaseCreates ==
    [date : {Dec20}, seller_name : {Acme}, transport_service : {<<>>},
     transport_cost : {0}, quantity : {2}, price_per_unit : {3}]
FramePurchaseUpdates == {[quantity |-> 4], [seller_name |-> AcmeCo]}
FrameExpenseCreates ==
    {[date |-> Dec20, category |-> "Other", amount |-> 30, description |-> <<"Tea">>]}
FrameExpenseUpdates == {[amount |-> 10], [category |-> "Rent"]}
FrameProductTypeUpdates == {[name |-> "Ply"], [name |-> "Plywood", description |-> "Sheets"]}

NextFrame ==
    \/ \E buyer \in LedgerBuyerCreates : create_buyer(buyer)
    \/ \E buyer_update \in FrameBuyerUpdates : update_buyer(1, buyer_update)
    \/ \E sale \in FrameSaleCreates : create_sale(sale)
    \/ \E sale_update \in FrameSaleUpdates : update_sale(1, sale_update)
    \/ \E purchase \in FramePurchaseCreates : create_purchase(purchase)
    \/ \E purchase_update \in FramePurchaseUpdates : update_purchase(1, purchase_update)
    \/ \E expense \in FrameExpenseCreates : create_expense(expense)
    \/ \E expense_update \in FrameExpenseUpdates : update_expense(1, expense_update)
    \/ \E product_type_update \in FrameProductTypeUpdates :
          update_product_type(1, product_type_update)

SpecFrame == InitBuyers /\ [][NextFrame]_vars

\* Every field of the row that the request does not supply, the derived ones
\* aside, has the value it had.
FrameKept(old, new, req, derived) ==
    \A f \in DOMAIN old \ (DOMAIN req \cup derived) : new[f] = old[f]

(* C18: a successful update_buyer, update_purchase, update_sale, update_expense
   or update_product_type leaves every field the request does not supply at
   its previous value (a purchase's derived total_purchase_cost aside); so
   update_product_type without description leaves the description as stored. *)
C18_PartialUpdateFrame ==
    [][/\ (op'.name = "update_buyer" /\ op'.status = 200)
          => FrameKept(buyers[op'.id], buyers'[op'.id], op'.req, {})
       /\ (op'.name = "update_purchase" /\ op'.status = 200)
          => FrameKept(purchases[op'.id], purchases'[op'.id], op'.req,
                       {"total_purchase_cost"})
       /\ (op'.name = "update_sale" /\ op'.status = 200)
          => FrameKept(sales[op'.id], sales'[op'.id], op'.req, {})
       /\ (op'.name = "update_expense" /\ op'.status = 200)
          => FrameKept(expenses[op'.id], expenses'[op'.id], op'.req, {})
       /\ (op'.name = "update_product_type" /\ op'.status = 200)
          => FrameKept(product_types[op'.id], product_types'[op'.id], op'.req, {})]_vars

(***************************************************************************)
(* Dashboard: sales, payments, purchases and expenses, with buyers who     *)
(* have paid more than they bought.                                        *)
(***************************************************************************)
NextDashboard ==
    \/ \E buyer \in MonthlyBuyerCreates : create_buyer(buyer)
    \/ \E sale \in MonthlySaleCreates : create_sale(sale)
    \/ \E buyer_id \in BuyerIds, payment \in PaymentCreates : add_payment(buyer_id, payment)
    \/ \E purchase \in MonthlyPurchaseCreates : create_purchase(purchase)
    \/ \E expense \in MonthlyExpenseCreates : create_expense(expense)
    \/ get_dashboard_summary

SpecDashboard == InitBuyers /\ [][NextDashboard]_vars

(* C19: get_dashboard_summary reports total_profit = the total_amount of all
   sales - the total_purchase_cost of all purchases - the amount of all
   expenses, and total_receivable = the sum of the outstanding balance of
   every buyer, those with a zero or negative balance included. *)
C19_DashboardTotals ==
    op.name = "get_dashboard_summary" =>
        /\ op.resp.total_profit =
              SumOver([s \in DOMAIN sales |-> sales[s].total_amount], DOMAIN sales)
              - SumOver([p \in DOMAIN purchases |-> purchases[p].total_purchase_cost],
                        DOMAIN purchases)
              - SumOver([e \in DOMAIN expenses |-> expenses[e].amount], DOMAIN expenses)
        /\ op.resp.total_receivable = SumOver([b \in DOMAIN buyers |-> Owed(b)], DOMAIN buyers)

C19_Witness ==
    /\ op.name = "get_dashboard_summary"
    /\ \E b \in DOMAIN buyers : Owed(b) < 0
    /\ \E b \in DOMAIN buyers : Owed(b) > 0
    /\ purchases # <<>> /\ expenses # <<>>
    /\ op.resp.total_receivable = 4
    /\ op.resp.total_profit = 6 - 6 - 30

-----------------------------------------------------------------------------
(* Re-keyed purchases: updates that change the date, the seller_name or the *)
(* transport_service of a purchase, with and without its transport_cost.    *)

RekeyPurchaseCreates ==
    [date : {Dec20}, seller_name : {Acme, AcmeCo}, transport_service : {<<>>},
     transport_cost : {0, 50}, quantity : {2}, price_per_unit : {3}]
RekeyPurchaseUpdates ==
    {[date |-> Jan05], [seller_name |-> AcmeCo], [transport_service |-> <<"Van">>],
     [date |-> Jan05, transport_cost |-> 75],
     [seller_name |-> AcmeCo, transport_cost |-> 75],
     [seller_name |-> Acme, transport_cost |-> 75]}

NextRekey ==
    \/ \E purchase \in RekeyPurchaseCreates : create_purchase(purchase)
    \/ \E purchase_id \in PurchaseIds, purchase_update \in RekeyPurchaseUpdates :
          update_purchase(purchase_id, purchase_update)
    \/ \E purchase_id \in PurchaseIds : delete_purchase(purchase_id)

SpecRekey == InitPurchases /\ [][NextRekey]_vars

(* C22: an update_purchase whose request carries no transport_cost leaves the
   expenses table as it was - no row added, changed or removed - also when it
   changes the date, seller_name or transport_service of a purchase that has
   a derived transport expense. *)
C22_NoCostNoExpenseChange ==
    [][(/\ op'.name = "update_purchase" /\ op'.status = 200
        /\ "transport_cost" \notin DOMAIN op'.req)
       => expenses' = expenses]_vars

C22_Witness ==
    /\ op.name = "update_purchase" /\ op.status = 200
    /\ op.req = [seller_name |-> AcmeCo]
    /\ purchases[op.id].seller_name = AcmeCo
    /\ purchases[op.id].transport_cost > 0
    /\ \E e \in DOMAIN expenses :
          /\ exp_origin[e] = op.id
          /\ expenses[e].description = TransportDescription(Acme, <<>>)
          /\ expenses[e].amount = purchases[op.id].transport_cost

(* C23: for a purchase that has a derived transport expense E, an
   update_purchase that supplies transport_cost > 0 and changes the date or
   the seller_name to values that no expense matches (same date, category
   Transport, description containing "purchase from <seller_name>") leaves E
   and every other expense unchanged and adds exactly one expense: category
   Transport, the new date, amount transport_cost, the description of the new
   seller_name. *)
C23_RekeyOrphansExpense ==
    [][(/\ op'.name = "update_purchase" /\ op'.status = 200
        /\ "transport_cost" \in DOMAIN op'.req /\ op'.req.transport_cost > 0
        /\ \E e \in DOMAIN expenses : exp_origin[e] = op'.id
        /\ \/ purchases'[op'.id].date # purchases[op'.id].date
           \/ purchases'[op'.id].seller_name # purchases[op'.id].seller_name
        /\ ~ \E e \in DOMAIN expenses :
                /\ expenses[e].date = purchases'[op'.id].date
                /\ expenses[e].category = "Transport"
                /\ Contains(expenses[e].description,
                            <<"purchase from ">> \o purchases'[op'.id].seller_name))
       => LET added == DOMAIN expenses' \ DOMAIN expenses IN
          /\ ExpensesKeptExcept({})
          /\ Cardinality(DOMAIN expenses') = Cardinality(DOMAIN expenses) + 1
          /\ \A e \in added :
                expenses'[e] = [date |-> purchases'[op'.id].date, category |-> "Transport",
                                amount |-> op'.req.transport_cost,
                                description |-> TransportDescription(
                                    purchases'[op'.id].seller_name,
                                    purchases'[op'.id].transport_service)]]_vars

C23_Witness ==
    /\ op.name = "update_purchase" /\ op.status = 200
    /\ op.req = [seller_name |-> AcmeCo, transport_cost |-> 75]
    /\ Cardinality(DOMAIN expenses) = 2
    /\ \A e \in DOMAIN expenses : exp_origin[e] = op.id /\ expenses[e].date = Dec20
    /\ \E e \in DOMAIN expenses :
          expenses[e].amount = 50 /\ expenses[e].description = TransportDescription(Acme, <<>>)
    /\ \E e \in DOMAIN expenses :
          expenses[e].amount = 75 /\ expenses[e].description = TransportDescription(AcmeCo, <<>>)

-----------------------------------------------------------------------------
(* Profit: purchases with and without a transport cost, next to sales and   *)
(* expenses entered directly, and the dashboard read after each of them.    *)

NextProfit ==
    \/ \E buyer \in MonthlyBuyerCreates : create_buyer(buyer)
    \/ \E sale \in MonthlySaleCreates : create_sale(sale)
    \/ \E purchase \in PurchaseCreates : create_purchase(purchase)
    \/ \E expense \in ExpenseCreates : create_expense(expense)
    \/ get_dashboard_summary

SpecProfit == InitPurchases /\ [][NextProfit]_vars

(* C30: the total_profit that get_dashboard_summary reports directly after a
   create_purchase with quantity q, price_per_unit p and transport_cost t is
   q * p + 2 * t lower than the profit of the tables without the rows that
   create added when t > 0 - t is part of the purchase's total_purchase_cost
   and is the amount of the derived Transport expense - and q * p lower when
   t = 0. *)
C30_TransportCostCountedTwice ==
    [][(/\ op.name = "create_purchase" /\ op.status = 201
        /\ op'.name = "get_dashboard_summary")
       => LET q == op.req.quantity
              p == op.req.price_per_unit
              t == op.req.transport_cost
              purchases_before == DOMAIN purchases \ {op.id}
              expenses_before == IF t > 0 THEN DOMAIN expenses \ {key_intact[op.id]}
                                 ELSE DOMAIN expenses
              profit_before ==
                  SumOver([s \in DOMAIN sales |-> sales[s].total_amount], DOMAIN sales)
                  - SumOver([r \in DOMAIN purchases |-> purchases[r].total_purchase_cost],
                            purchases_before)
                  - SumOver([e \in DOMAIN expenses |-> expenses[e].amount], expenses_before)
          IN /\ Cardinality(expenses_before) =
                   Cardinality(DOMAIN expenses) - (IF t > 0 THEN 1 ELSE 0)
             /\ op'.resp.total_profit =
                   profit_before - (IF t > 0 THEN q * p + 2 * t ELSE q * p)]_vars

C30_Witness ==
    /\ op.name = "get_dashboard_summary"
    /\ Cardinality(DOMAIN sales) = 1
    /\ last_id.purchases = 2 /\ last_id.expenses = 2
    /\ purchases[1].transport_cost = 0 /\ purchases[2].transport_cost = 50
    /\ \E e \in DOMAIN expenses : exp_origin[e] = 2 /\ expenses[e].amount = 50
    /\ \E e \in DOMAIN expenses : e \notin DOMAIN exp_origin /\ expenses[e].amount = 30
    /\ op.resp.total_profit = 6 - (6 + (6 + 50)) - (30 + 50)

-----------------------------------------------------------------------------
(* Multi-step writes: create_sale and create_purchase run step by step in   *)
(* concurrent sessions, any of which may fail at any point, on a store that *)
(* may or may not enforce its FOREIGN KEY columns.                          *)

SessionIds == 1..MaxSessions

NextSteps ==
    \/ \E buyer \in SalesBuyerCreates : create_buyer(buyer)
    \/ delete_product_type(1)
    \/ \E session \in SessionIds,
             sale \in {r \in SalesSaleCreates : r.buyer_id = 1 /\ Len(r.sale_items) = 2} :
          create_sale_flush(session, sale)
    \/ \E session \in SessionIds : create_sale_commit(session)
    \/ \E session \in SessionIds,
             purchase \in {r \in PurchaseCreates : r.seller_name = Acme} :
          create_purchase_commit_purchase(session, purchase)
    \/ \E session \in SessionIds : create_purchase_commit_expense(session)
    \/ \E session \in SessionIds : request_fails(session)

SpecSteps == InitSales /\ [][NextSteps]_vars

(* C24: create_sale commits all of its rows or none.  A step in which a
   create_sale fails leaves the sales, sale_items and payments tables as they
   were; a step that makes a sale row appear in the sales table is the return
   of the create_sale that made it and makes all of its sale items appear
   with it and, for payment_received_now > 0, its payment; no sale item and no
   payment appears in any other step. *)
C24_CreateSaleAllOrNothing ==
    [][/\ (op'.name = "create_sale" /\ op'.status = 500)
          => UNCHANGED <<sales, sale_items, payments>>
       /\ \A id \in DOMAIN sales' \ DOMAIN sales :
             /\ op'.name = "create_sale" /\ op'.status = 201 /\ op'.id = id
             /\ Cardinality({i \in DOMAIN sale_items' \ DOMAIN sale_items :
                                sale_items'[i].sale_id = id})
                   = Len(op'.req.sale_items)
             /\ Cardinality({p \in DOMAIN payments' \ DOMAIN payments :
                                /\ payments'[p].notes = <<"Payment for Sale #", id>>
                                /\ payments'[p].amount = op'.req.payment_received_now
                                /\ payments'[p].buyer_id = op'.req.buyer_id})
                   = IF op'.req.payment_received_now > 0 THEN 1 ELSE 0
       /\ \A i \in DOMAIN sale_items' \ DOMAIN sale_items :
             sale_items'[i].sale_id \in DOMAIN sales' \ DOMAIN sales
       /\ \A p \in DOMAIN payments' \ DOMAIN payments :
             \E id \in DOMAIN sales' \ DOMAIN sales :
                payments'[p].notes = <<"Payment for Sale #", id>>]_vars

\* A create_sale has failed after its flush while another sale, with items and
\* a payment, is committed.
C24_Witness ==
    /\ op.name = "create_sale" /\ op.status = 500 /\ op.id = 2
    /\ DOMAIN sales = {1}
    /\ sales[1].payment_received_now > 0
    /\ Cardinality(DOMAIN sale_items) = 2
    /\ Cardinality(DOMAIN payments) = 1
    /\ last_id.sales = 2

(* C25: create_purchase is not atomic.  When a create_purchase with
   transport_cost > 0 fails after its first commit and before its second, the
   state it leaves has the purchase, with that transport_cost, and no expense
   derived from it. *)
C25_PurchaseWithoutExpense ==
    [][\A session \in DOMAIN sessions \ DOMAIN sessions' :
          (/\ sessions[session].name = "create_purchase"
           /\ sessions[session].req.transport_cost > 0
           /\ op'.status = 500)
          => LET id == sessions[session].id IN
             /\ op'.name = "create_purchase" /\ op'.id = id
             /\ id \in DOMAIN purchases'
             /\ purchases'[id].transport_cost = sessions[session].req.transport_cost
             /\ ~ \E e \in DOMAIN exp_origin' : exp_origin'[e] = id
             /\ expenses' = expenses]_vars

C25_Witness ==
    /\ op.name = "create_purchase" /\ op.status = 500
    /\ sessions = Empty
    /\ op.id \in DOMAIN purchases
    /\ purchases[op.id].transport_cost = 50
    /\ expenses = Empty

-----------------------------------------------------------------------------
(* Concurrent updates: purchases created without a transport cost, then     *)
(* given one by update_purchase requests that run step by step in           *)
(* concurrent sessions.                                                     *)

ConcurrentPurchaseUpdates == {[transport_cost |-> 60], [transport_cost |-> 75]}

NextConcurrent ==
    \/ \E purchase \in MonthlyPurchaseCreates : create_purchase(purchase)
    \/ \E session \in SessionIds, purchase_id \in PurchaseIds,
          purchase_update \in ConcurrentPurchaseUpdates :
          update_purchase_commit(session, purchase_id, purchase_update)
    \/ \E session \in SessionIds : update_purchase_lookup(session)
    \/ \E session \in SessionIds : update_purchase_sync(session)

SpecConcurrent == InitPurchases /\ [][NextConcurrent]_vars

(* C29: after update_purchase requests that supply transport_cost > 0 for a
   purchase, started while no transport expense matches it and run
   concurrently, at most one Transport expense matches the date and
   seller_name of the purchase, however the lookup and commit steps of the
   requests interleave. *)
C29_AtMostOneTransportExpense ==
    \A p \in DOMAIN purchases :
        Cardinality(TransportExpenseMatches(purchases[p].date, purchases[p].seller_name)) <= 1

=============================================================================
